---- MODULE Spec2Model ----
(***************************************************************************)
(* Persona generation and survey orchestration engine of social_listening. *)
(*                                                                         *)
(* Three near-duplicate programs share the engine: app.py (demographic     *)
(* personas, asynchronous providers) and run.py / world_listening_ja.py    *)
(* (species personas, synchronous providers).  Where they differ the model *)
(* carries the variable `variant`.                                         *)
(*                                                                         *)
(* Text is modelled as a sequence of character codes, so that len(), the   *)
(* slices s[:k] and concatenation are computed as Python computes them.    *)
(***************************************************************************)
EXTENDS Integers, Sequences, FiniteSets, TLC

\* ------------------------------------------------------------------ bounds
MaxSpecies == 3
MaxPop == 4
MaxTotal == 8
MaxRequests == 3
MaxReads == 2
MaxCalls == 2
MaxErrLen == 60
MaxPersonas == 2
MaxSurveys == 2
MaxSeed == 2
MaxResponses == 3
MaxAnalyses == 2
MaxTrimLen == 8

VARIABLES
    \* SpeciesPersonaGenerator.calculate_species_distribution
    species_population,     \* db.species_population: entity (index) -> population
    total_personas,         \* the argument N
    fp_low,                 \* populations whose float product N * (p / T) falls just below the exact integer
    species_list,           \* entities sorted by descending population
    species_distribution,   \* the dict being built: sequence of <<entity, count>> in insertion order
    remaining_personas,
    alloc_i,                \* position of the for loop in species_list[:-1]
    alloc_pc,               \* "idle" | "loop" | "last" | "done"
    \* CostTracker, one per provider instance
    cost_tracker,           \* instance -> [total_input_tokens, total_output_tokens, requests_count]
    usage_log,              \* instance -> the add_usage calls made so far, as <<input_tokens, output_tokens>>
    ret_cost,               \* instance -> the cost last returned by a read (NoValue before any read)
    ret_summary,            \* instance -> <<the dict last returned by get_cost_summary>>, <<>> before any
    reads_since,            \* instance -> number of reads since the instance's last add_usage
    \* the providers (GPT4OMiniProvider = "live", SimulationProvider = "sim")
    variant,                \* "app" (app.py) | "run" (run.py, world_listening_ja.py)
    ncalls,                 \* instance -> number of provider calls made on it
    last_call,              \* the most recent provider call and what it returned
    returned_total,         \* the sums of the tokens and costs returned by the live provider's calls
    \* the session and the survey in progress
    session_state,          \* st.session_state: personas, use_real_llm, api_key, llm_provider, ...
    survey,                 \* the locals of execute_enhanced_survey / execute_species_survey
    \* ResponseAnalyzer
    analyzer,               \* the latest calls of analyze_sentiment and extract_keywords
    \* execute_ai_analysis / execute_species_ai_analysis
    ai_run,                 \* how the presses of the analysis button ended
    \* WebSearchProvider
    safe_trim_call          \* the latest call of _safe_trim and what it returned

alloc_vars == <<species_population, total_personas, fp_low, species_list,
                species_distribution, remaining_personas, alloc_i, alloc_pc>>
ledger_vars == <<cost_tracker, usage_log, ret_cost, ret_summary, reads_since>>

provider_vars == <<variant, ncalls, last_call, returned_total>>

survey_vars == <<session_state, survey>>

analysis_vars == <<analyzer, ai_run>>

search_vars == <<safe_trim_call>>
non_search_vars == <<alloc_vars, ledger_vars, provider_vars, survey_vars, analysis_vars>>

vars == <<alloc_vars, ledger_vars, provider_vars, survey_vars, analysis_vars, search_vars>>
non_alloc_vars == <<ledger_vars, provider_vars, survey_vars, analysis_vars, search_vars>>
non_ledger_vars == <<alloc_vars, provider_vars, survey_vars, analysis_vars, search_vars>>
non_provider_vars == <<alloc_vars, survey_vars, analysis_vars, search_vars>>
non_analysis_vars == <<alloc_vars, ledger_vars, provider_vars, survey_vars, search_vars>>

\* ----------------------------------------------------------------- helpers
Min(a, b) == IF a <= b THEN a ELSE b
Max(a, b) == IF a >= b THEN a ELSE b

RECURSIVE SumSeq(_)
SumSeq(s) == IF s = <<>> THEN 0 ELSE s[1] + SumSeq(Tail(s))

RECURSIVE Gcd(_, _)
Gcd(a, b) == IF b = 0 THEN a ELSE Gcd(b, a % b)

RECURSIVE IsPow2(_)
IsPow2(n) == IF n = 1 THEN TRUE ELSE IF n % 2 # 0 THEN FALSE ELSE IsPow2(n \div 2)

\* ======================================================================
\* PopulationAllocator: SpeciesPersonaGenerator.calculate_species_distribution
\* ======================================================================

\* The population tables tried: every table of 1..MaxSpecies positive
\* populations up to MaxPop, and the table {A: 100, B: 10, C: 1} in two
\* dictionary orders.
TableABC == <<100, 10, 1>>
TableCAB == <<1, 100, 10>>
Tables == UNION {[1..n -> 1..MaxPop] : n \in 1..MaxSpecies} \cup {TableABC, TableCAB}

\* The requested totals tried.
Totals == 0..MaxTotal \cup {20}

\* total_population = sum(data['population'] for data in ...values())
TotalPopulation(tbl) == SumSeq(tbl)

\* A sort that forgets reverse=True (ascending populations).
RECURSIVE SortAscending(_, _)
SortAscending(tbl, S) ==
    IF S = {} THEN <<>>
    ELSE LET m == CHOOSE i \in S : \A j \in S :
                      tbl[i] < tbl[j] \/ (tbl[i] = tbl[j] /\ i <= j)
         IN  <<m>> \o SortAscending(tbl, S \ {m})

\* species_list.sort(key=population, reverse=True): a stable sort, so entities
\* of equal population keep their dictionary order.
RECURSIVE SortDescending(_, _)
SortDescending(tbl, S) ==
    IF S = {} THEN <<>>
    ELSE LET m == CHOOSE i \in S : \A j \in S :
                      tbl[i] > tbl[j] \/ (tbl[i] = tbl[j] /\ i <= j)
         IN  <<m>> \o SortDescending(tbl, S \ {m})

\* The populations p for which the double product N * (p / T) can differ from
\* the exact quotient: the exact value N*p/T is an integer q >= 1 and p/T is
\* not a dyadic rational, so p/T is rounded and the product can land just
\* below q (55 * (3 / 11) = 14.999999999999998 in Python).  In every other
\* case int() of the product is the exact floor.
FpInexact(tbl, N) ==
    LET T == TotalPopulation(tbl)
    IN  {p \in {tbl[i] : i \in DOMAIN tbl} :
            /\ (N * p) % T = 0
            /\ N * p >= T
            /\ ~IsPow2(T \div Gcd(p, T))}

\* An int() that rounds the product to the nearest integer.
IntOfProductRounded(N, p, T, low) ==
    (2 * N * p + T) \div (2 * T)

\* int(total_personas * ratio) with ratio = population / total_population
IntOfProduct(N, p, T, low) ==
    LET q == (N * p) \div T
    IN  IF p \in low THEN q - 1 ELSE q

\* The count without the reservation term.
CountNoReserve(N, p, T, low, remaining, nlist, ndist) ==
    Max(1, Min(IntOfProduct(N, p, T, low), remaining))

\* The count with a reservation one entity short.
CountShortReserve(N, p, T, low, remaining, nlist, ndist) ==
    Max(1, Min(IntOfProduct(N, p, T, low), remaining - (nlist - ndist - 2)))

\* count = max(1, min(int(total_personas * ratio),
\*                    remaining_personas - (len(species_list) - len(species_distribution) - 1)))
Count(N, p, T, low, remaining, nlist, ndist) ==
    Max(1, Min(IntOfProduct(N, p, T, low), remaining - (nlist - ndist - 1)))

\* The counts stored in the dict, in insertion order, and their sum.
Counts(dist) == [k \in 1..Len(dist) |-> dist[k][2]]
Keys(dist) == {dist[k][1] : k \in 1..Len(dist)}
SumCounts(dist) == SumSeq(Counts(dist))
CountOf(dist, e) == LET k == CHOOSE k \in 1..Len(dist) : dist[k][1] = e IN dist[k][2]

\* The generator after construction over one of the given tables.
AllocIdle(tables) ==
    /\ species_population \in tables
    /\ total_personas = 0
    /\ fp_low = {}
    /\ species_list = <<>>
    /\ species_distribution = <<>>
    /\ remaining_personas = 0
    /\ alloc_i = 1
    /\ alloc_pc = "idle"

\* An entry that leaves the entities in the order of the table.
CalcStartUnsorted(N) ==
    /\ alloc_pc \in {"idle", "done"}
    /\ total_personas' = N
    /\ fp_low' \in SUBSET FpInexact(species_population, N)
    /\ species_distribution' = <<>>
    /\ remaining_personas' = N
    /\ species_list' = [i \in DOMAIN species_population |-> i]
    /\ alloc_i' = 1
    /\ alloc_pc' = "loop"
    /\ UNCHANGED species_population
    /\ UNCHANGED non_alloc_vars

\* Entry of calculate_species_distribution(total_personas): lines up to the sort.
CalcStart(N) ==
    /\ alloc_pc \in {"idle", "done"}
    /\ total_personas' = N
    /\ fp_low' \in SUBSET FpInexact(species_population, N)
    /\ species_distribution' = <<>>
    /\ remaining_personas' = N
    /\ species_list' = SortDescending(species_population, DOMAIN species_population)
    /\ alloc_i' = 1
    /\ alloc_pc' = "loop"
    /\ UNCHANGED species_population
    /\ UNCHANGED non_alloc_vars

\* The loop body without its `if remaining_personas > 0` guard.
CalcLoopUnguarded ==
    /\ alloc_pc = "loop"
    /\ alloc_i <= Len(species_list) - 1
    /\ LET species == species_list[alloc_i]
           count == Count(total_personas, species_population[species],
                          TotalPopulation(species_population), fp_low,
                          remaining_personas, Len(species_list),
                          Len(species_distribution))
       IN  /\ species_distribution' = Append(species_distribution, <<species, count>>)
           /\ remaining_personas' = remaining_personas - count
    /\ alloc_i' = alloc_i + 1
    /\ UNCHANGED <<species_population, total_personas, fp_low, species_list, alloc_pc>>
    /\ UNCHANGED non_alloc_vars

\* One iteration of `for species, data in species_list[:-1]`.
CalcLoop ==
    /\ alloc_pc = "loop"
    /\ alloc_i <= Len(species_list) - 1
    /\ LET species == species_list[alloc_i]
           count == Count(total_personas, species_population[species],
                          TotalPopulation(species_population), fp_low,
                          remaining_personas, Len(species_list),
                          Len(species_distribution))
       IN  IF remaining_personas > 0
           THEN /\ species_distribution' = Append(species_distribution, <<species, count>>)
                /\ remaining_personas' = remaining_personas - count
           ELSE UNCHANGED <<species_distribution, remaining_personas>>
    /\ alloc_i' = alloc_i + 1
    /\ UNCHANGED <<species_population, total_personas, fp_low, species_list, alloc_pc>>
    /\ UNCHANGED non_alloc_vars

\* The loop is exhausted.
CalcLoopEnd ==
    /\ alloc_pc = "loop"
    /\ alloc_i > Len(species_list) - 1
    /\ alloc_pc' = "last"
    /\ UNCHANGED <<species_population, total_personas, fp_low, species_list,
                   species_distribution, remaining_personas, alloc_i>>
    /\ UNCHANGED non_alloc_vars

\* A last step that stores the budget left even when none is left.
CalcLastAlways ==
    /\ alloc_pc = "last"
    /\ IF Len(species_list) > 0
       THEN species_distribution' =
                Append(species_distribution,
                       <<species_list[Len(species_list)], remaining_personas>>)
       ELSE UNCHANGED species_distribution
    /\ alloc_pc' = "done"
    /\ UNCHANGED <<species_population, total_personas, fp_low, species_list,
                   remaining_personas, alloc_i>>
    /\ UNCHANGED non_alloc_vars

\* `if species_list and remaining_personas > 0: dist[last] = remaining`, then return.
CalcLast ==
    /\ alloc_pc = "last"
    /\ IF Len(species_list) > 0 /\ remaining_personas > 0
       THEN species_distribution' =
                Append(species_distribution,
                       <<species_list[Len(species_list)], remaining_personas>>)
       ELSE UNCHANGED species_distribution
    /\ alloc_pc' = "done"
    /\ UNCHANGED <<species_population, total_personas, fp_low, species_list,
                   remaining_personas, alloc_i>>
    /\ UNCHANGED non_alloc_vars

\* ======================================================================
\* CostLedger: CostTracker
\* ======================================================================
Instances == {"live", "sim"}
NoValue == -1

\* Prices per token in units of 1e-8 USD: 0.00015 USD and 0.0006 USD per
\* 1000 tokens.  Costs are kept as exact integers in that unit.
gpt4o_mini_input_cost == 15
gpt4o_mini_output_cost == 60
JpyPerUsd == 150

\* CostTracker.__init__
FreshTracker ==
    [total_input_tokens |-> 0, total_output_tokens |-> 0, requests_count |-> 0]

\* An add_usage that forgets the request counter.
add_usage_uncounted(t, input_tokens, output_tokens) ==
    [total_input_tokens  |-> t.total_input_tokens + input_tokens,
     total_output_tokens |-> t.total_output_tokens + output_tokens,
     requests_count      |-> t.requests_count]

\* CostTracker.add_usage
add_usage(t, input_tokens, output_tokens) ==
    [total_input_tokens  |-> t.total_input_tokens + input_tokens,
     total_output_tokens |-> t.total_output_tokens + output_tokens,
     requests_count      |-> t.requests_count + 1]

\* CostTracker.get_total_cost
get_total_cost(t) ==
    t.total_input_tokens * gpt4o_mini_input_cost
        + t.total_output_tokens * gpt4o_mini_output_cost

\* CostTracker.get_cost_summary
get_cost_summary(t) ==
    LET total_cost_usd == get_total_cost(t)
    IN  [total_input_tokens  |-> t.total_input_tokens,
         total_output_tokens |-> t.total_output_tokens,
         total_tokens        |-> t.total_input_tokens + t.total_output_tokens,
         requests_count      |-> t.requests_count,
         total_cost_usd      |-> total_cost_usd,
         total_cost_jpy      |-> total_cost_usd * JpyPerUsd]

\* The token arguments tried for direct add_usage calls.
UsageArgs == {<<100, 50>>, <<30, 0>>}

\* The ledgers after construction.
LedgerFresh ==
    /\ cost_tracker = [p \in Instances |-> FreshTracker]
    /\ usage_log = [p \in Instances |-> <<>>]
    /\ ret_cost = [p \in Instances |-> NoValue]
    /\ ret_summary = [p \in Instances |-> <<>>]
    /\ reads_since = [p \in Instances |-> 0]

\* The effect of one add_usage call on the ledger of instance p.
Charge(p, input_tokens, output_tokens) ==
    /\ cost_tracker' = [cost_tracker EXCEPT ![p] = add_usage(@, input_tokens, output_tokens)]
    /\ usage_log' = [usage_log EXCEPT ![p] = Append(@, <<input_tokens, output_tokens>>)]
    /\ reads_since' = [reads_since EXCEPT ![p] = 0]
    /\ UNCHANGED <<ret_cost, ret_summary>>

\* tracker.add_usage(input_tokens, output_tokens) called directly.
AddUsage(p, input_tokens, output_tokens) ==
    /\ cost_tracker[p].requests_count < MaxRequests
    /\ Charge(p, input_tokens, output_tokens)
    /\ UNCHANGED non_ledger_vars

\* A get_total_cost that starts a new billing period after it is read.
GetTotalCostResetting(p) ==
    /\ reads_since[p] < MaxReads
    /\ ret_cost' = [ret_cost EXCEPT ![p] = get_total_cost(cost_tracker[p])]
    /\ reads_since' = [reads_since EXCEPT ![p] = @ + 1]
    /\ cost_tracker' = [cost_tracker EXCEPT ![p] = FreshTracker]
    /\ UNCHANGED <<usage_log, ret_summary>>
    /\ UNCHANGED non_ledger_vars

\* tracker.get_total_cost()
GetTotalCost(p) ==
    /\ reads_since[p] < MaxReads
    /\ ret_cost' = [ret_cost EXCEPT ![p] = get_total_cost(cost_tracker[p])]
    /\ reads_since' = [reads_since EXCEPT ![p] = @ + 1]
    /\ UNCHANGED <<cost_tracker, usage_log, ret_summary>>
    /\ UNCHANGED non_ledger_vars

\* tracker.get_cost_summary()
GetCostSummary(p) ==
    /\ reads_since[p] < MaxReads
    /\ ret_summary' = [ret_summary EXCEPT ![p] = <<get_cost_summary(cost_tracker[p])>>]
    /\ ret_cost' = [ret_cost EXCEPT ![p] = get_cost_summary(cost_tracker[p]).total_cost_usd]
    /\ reads_since' = [reads_since EXCEPT ![p] = @ + 1]
    /\ UNCHANGED <<cost_tracker, usage_log>>
    /\ UNCHANGED non_ledger_vars

\* ======================================================================
\* Text
\* ======================================================================
\* Character codes: the space, the full stop, a character of a literal of the
\* source.  The characters of an input text carry their position above a base,
\* so that a slice of a text is recognisable in a result.
SP == 0
DOT == 1
LIT == 2
ErrBase == 100
ContentBase == 1000
QuestionBase == 5000

Lit(n) == [i \in 1..n |-> LIT]
Ellipsis == <<DOT, DOT, DOT>>

\* A text of len characters in `words` words (single characters separated by
\* single spaces, the last word taking the rest).
TextW(base, len, words) ==
    [i \in 1..len |-> IF i <= 2 * (words - 1) /\ i % 2 = 0 THEN SP ELSE base + i]

\* s[:k]
Slice(s, k) == SubSeq(s, 1, Min(k, Len(s)))

\* s.strip()
RECURSIVE LStrip(_)
LStrip(s) == IF s # <<>> /\ s[1] = SP THEN LStrip(Tail(s)) ELSE s
RECURSIVE RStrip(_)
RStrip(s) == IF s # <<>> /\ s[Len(s)] = SP THEN RStrip(SubSeq(s, 1, Len(s) - 1)) ELSE s
Strip(s) == RStrip(LStrip(s))

\* len(s.split())
NumWords(s) ==
    Cardinality({i \in 1..Len(s) : s[i] # SP /\ (i = 1 \/ s[i - 1] = SP)})

\* A truncation that appends the marker to the first cap characters.
TruncateLate(text, cap) ==
    IF Len(text) > cap THEN Slice(text, cap) \o Ellipsis ELSE text

\* `if len(text) > cap: text = text[:cap - 3] + "..."`
Truncate(text, cap) ==
    IF Len(text) > cap THEN Slice(text, cap - 3) \o Ellipsis ELSE text

\* ======================================================================
\* ResponseProvider: GPT4OMiniProvider and SimulationProvider
\* ======================================================================
ResponseCap == 100
SummaryCap == 300
AnalysisCap == 3600
ErrorCap == 50

\* EnhancedPromptGenerator.count_tokens without the tiktoken encoder:
\* len(text) // 3 in app.py, int(len(text.split()) * 1.3) in run.py.
count_tokens(v, text) ==
    IF v = "app" THEN Len(text) \div 3 ELSE (NumWords(text) * 13) \div 10

\* A cost that prices the output tokens at the input rate.
estimate_cost_flat(input_tokens, output_tokens) ==
    input_tokens * gpt4o_mini_input_cost + output_tokens * gpt4o_mini_input_cost

\* estimate_cost / the inline cost expression, in units of 1e-8 USD.
estimate_cost(input_tokens, output_tokens) ==
    input_tokens * gpt4o_mini_input_cost + output_tokens * gpt4o_mini_output_cost

\* create_detailed_persona_prompt / create_species_persona_prompt.  The fixed
\* text of the template and the persona's profile lines are abridged to a few
\* literal characters.
create_persona_prompt(persona, question, context_info) ==
    LET context_section ==
            IF context_info # <<>> THEN Lit(2) \o <<SP>> \o context_info \o <<SP>> ELSE <<>>
    IN  Lit(4) \o <<SP>> \o context_section \o Lit(2) \o question \o <<SP>> \o Lit(3)

\* create_search_summary_prompt: the question, the first ten results, the
\* instructions (which repeat the question in app.py).
RECURSIVE JoinTexts(_)
JoinTexts(ts) == IF ts = <<>> THEN <<>> ELSE ts[1] \o <<SP>> \o JoinTexts(Tail(ts))
create_search_summary_prompt(v, search_results, question) ==
    Lit(2) \o question \o <<SP>> \o JoinTexts(SubSeq(search_results, 1, Min(10, Len(search_results))))
        \o Lit(3) \o (IF v = "app" THEN <<SP>> \o question ELSE <<>>)

\* create_analysis_prompt: the question, the numbered responses, the instructions.
create_analysis_prompt(responses, question) ==
    Lit(2) \o question \o <<SP>> \o JoinTexts(responses) \o Lit(5)

\* The error text of a failed live call, kept whole.
FailureTextWhole(v, prefix, message) == prefix \o message

\* The error text of a failed live call:
\*   app.py  f"APIエラー: {str(e)[:50]}..."
\*   run.py  error_msg = str(e); if len(error_msg) > 50: error_msg = error_msg[:47] + "..."
\*           f"API Error: {error_msg}"
FailureText(v, prefix, message) ==
    IF v = "app"
    THEN prefix \o Slice(message, ErrorCap) \o Ellipsis
    ELSE prefix \o Truncate(message, ErrorCap)

\* The literal in front of the error message, by operation.
ErrorPrefix(v, op) ==
    IF v = "app"
    THEN Lit(8)
    ELSE IF op = "generate" THEN Lit(11)
         ELSE IF op = "summarize" THEN Lit(15) ELSE Lit(16)
CapOf(op) ==
    IF op = "generate" THEN ResponseCap
    ELSE IF op = "summarize" THEN SummaryCap ELSE AnalysisCap

\* A live call whose failure is returned with its cost but not charged.
live_call_failure_uncharged(v, op, prompt, outcome) ==
    LET input_tokens == count_tokens(v, prompt)
    IN  IF ~outcome.raised
        THEN LET text == Truncate(Strip(outcome.text), CapOf(op))
                 output_tokens == count_tokens(v, text)
             IN  [result |-> [success |-> TRUE, text |-> text,
                              input_tokens |-> input_tokens,
                              output_tokens |-> output_tokens,
                              cost_usd |-> estimate_cost(input_tokens, output_tokens)],
                  usage |-> <<<<input_tokens, output_tokens>>>>]
        ELSE [result |-> [success |-> FALSE,
                          text |-> FailureText(v, ErrorPrefix(v, op), outcome.text),
                          input_tokens |-> input_tokens,
                          output_tokens |-> 0,
                          cost_usd |-> estimate_cost(input_tokens, 0)],
              usage |-> <<>>]

\* The body shared by GPT4OMiniProvider.generate_response,
\* summarize_search_results and analyze_responses, from the prompt on:
\* outcome.raised says whether the try block raised, outcome.text is the
\* message content returned or the message of the exception.  The value is the
\* dict returned and the add_usage calls made.
live_call(v, op, prompt, outcome) ==
    LET input_tokens == count_tokens(v, prompt)
    IN  IF ~outcome.raised
        THEN LET text == Truncate(Strip(outcome.text), CapOf(op))
                 output_tokens == count_tokens(v, text)
             IN  [result |-> [success |-> TRUE, text |-> text,
                              input_tokens |-> input_tokens,
                              output_tokens |-> output_tokens,
                              cost_usd |-> estimate_cost(input_tokens, output_tokens)],
                  usage |-> <<<<input_tokens, output_tokens>>>>]
        ELSE [result |-> [success |-> FALSE,
                          text |-> FailureText(v, ErrorPrefix(v, op), outcome.text),
                          input_tokens |-> input_tokens,
                          output_tokens |-> 0,
                          cost_usd |-> estimate_cost(input_tokens, 0)],
              usage |-> <<<<input_tokens, 0>>>>]

\* ------------------------------------------- the simulated response tables
\* dict.get(key, default)
Get(d, key, default) == IF key \in DOMAIN d THEN d[key] ELSE default

\* word in text
Contains(text, word) ==
    \E i \in 1..(Len(text) - Len(word) + 1) : SubSeq(text, i, i + Len(word) - 1) = word

\* A keyword, abridged to two characters; an upper-case spelling of a
\* character has its code UpperShift higher.
KW(c) == <<c, c + 1>>
UpperShift == 50
Upper(text) == [i \in 1..Len(text) |-> text[i] + UpperShift]
\* The lower-case letters: the characters of the keywords (10..49), of the
\* sentiment lexicons (6000..6049) and of the words of a response (7300..7349).
IsLowerLetter(c) ==
    \/ c >= 10 /\ c < 50
    \/ c >= 6000 /\ c < 6050
    \/ c >= 7300 /\ c < 7350
\* text.lower()
Lower(text) ==
    [i \in 1..Len(text) |->
        IF IsLowerLetter(text[i] - UpperShift) THEN text[i] - UpperShift ELSE text[i]]

\* app.py: ['対策', '改善', '支援', '促進'] and ['問題', '課題', '困難', '不安']
AppPositiveWords == {KW(10), KW(12), KW(14), KW(16)}
AppNegativeWords == {KW(20), KW(22), KW(24), KW(26)}
\* run.py: ['environment', 'protection', 'cooperation'] and ['danger', 'threat', 'problem']
RunHarmonyWords == {KW(30), KW(32), KW(34)}
RunThreatWords == {KW(40), KW(42), KW(44)}

\* A text of len characters in `words` words of literal characters.
LitW(len, words) ==
    [i \in 1..len |-> IF i <= 2 * (words - 1) /\ i % 2 = 0 THEN SP ELSE LIT]

\* An entry of a response table: its first character tells the entry, the
\* rest has the length and the word count of the entry in the source.
PatternBase == 8000
Entry(code, len, words) == <<PatternBase + code>> \o Tail(LitW(len, words))
EntryList(code, lens) == [k \in 1..Len(lens) |-> Entry(code + k, lens[k], 1)]
EntryListW(code, lws) == [k \in 1..Len(lws) |-> Entry(code + k, lws[k][1], lws[k][2])]

\* The generation labels 'Z世代', 'ミレニアル世代', 'X世代', 'バブル世代',
\* '団塊・シニア世代' and the political leanings '保守', '中道', 'リベラル',
\* '無関心'.
GenZ == "Z"
GenMillennial == "Millennial"
GenX == "X"
GenBubble == "Bubble"
GenSenior == "Senior"
GenerationLabels == {GenZ, GenMillennial, GenX, GenBubble, GenSenior}
Conservative == "conservative"
Moderate == "moderate"
Liberal == "liberal"
Disengaged == "disengaged"
PoliticalLeanings == {Conservative, Moderate, Liberal, Disengaged}

\* SimulationProvider.response_patterns of app.py, by the lengths of its entries.
app_response_patterns ==
    [Z          |-> [positive |-> EntryList(110, <<39, 30, 31>>),
                     negative |-> EntryList(120, <<35, 33, 30>>),
                     neutral  |-> EntryList(130, <<32, 31>>)],
     Millennial |-> [positive |-> EntryList(210, <<34, 31, 26>>),
                     negative |-> EntryList(220, <<36, 32, 30>>),
                     neutral  |-> EntryList(230, <<34, 32>>)],
     X          |-> [positive |-> EntryList(310, <<36, 34>>),
                     negative |-> EntryList(320, <<32, 30>>),
                     neutral  |-> EntryList(330, <<28, 26>>)],
     Bubble     |-> [positive |-> EntryList(410, <<27, 27>>),
                     negative |-> EntryList(420, <<30, 24>>),
                     neutral  |-> EntryList(430, <<27, 21>>)],
     Senior     |-> [positive |-> EntryList(510, <<36, 29>>),
                     negative |-> EntryList(520, <<25, 24>>),
                     neutral  |-> EntryList(530, <<24, 23>>)]]

\* The three responses of a persona whose political_leaning is '無関心'.
app_no_opinion_responses == EntryList(900, <<27, 23, 21>>)

\* SimulationProvider.response_patterns of run.py, by <<length, words>>.
run_response_patterns ==
    [Herring  |-> EntryListW(1010, <<<<96, 15>>, <<102, 16>>, <<102, 13>>>>),
     Dolphin  |-> EntryListW(1020, <<<<93, 14>>, <<92, 12>>, <<114, 15>>>>),
     Elephant |-> EntryListW(1030, <<<<98, 14>>, <<96, 13>>, <<84, 10>>>>),
     Rat      |-> EntryListW(1040, <<<<106, 15>>, <<85, 12>>, <<72, 9>>>>),
     Crow     |-> EntryListW(1050, <<<<88, 12>>, <<103, 13>>, <<82, 9>>>>),
     Chicken  |-> EntryListW(1060, <<<<101, 15>>, <<77, 10>>, <<80, 10>>>>)]

\* The name of a species and a survival priority as texts.
SpeciesText(name) == Lit(IF name = "Mackerel" THEN 8 ELSE 3)
DefaultPriority == <<LIT, LIT, LIT, LIT, LIT, LIT, LIT, SP, LIT, LIT, LIT, LIT, LIT, LIT, LIT, LIT, LIT, LIT>>

\* The response built for a species without table entry:
\*   f"We {species} aim for {survival_priority} and act with ecosystem harmony in mind."
\*   f"As {species}, we face difficulties together with companions for {survival_priority}."
\*   f"Utilizing {species} characteristics to pursue optimal methods for {survival_priority}."
run_generic_response(species, survival_priority, question) ==
    LET q == Lower(question)
        s == SpeciesText(species)
    IN  IF \E w \in RunHarmonyWords : Contains(q, w)
        THEN <<PatternBase + 2001>> \o <<LIT, SP>> \o s \o <<SP>> \o LitW(7, 2) \o <<SP>>
                 \o survival_priority \o <<SP>> \o LitW(39, 7)
        ELSE IF \E w \in RunThreatWords : Contains(q, w)
        THEN <<PatternBase + 2002>> \o <<LIT, SP>> \o s \o <<LIT, SP>> \o LitW(49, 7) \o <<SP>>
                 \o survival_priority \o <<LIT>>
        ELSE <<PatternBase + 2003>> \o Lit(8) \o <<SP>> \o s \o <<SP>> \o LitW(45, 6) \o <<SP>>
                 \o survival_priority \o <<LIT>>

\* The bucket chosen from the question in app.py.
app_sentiment(question) ==
    IF \E w \in AppPositiveWords : Contains(question, w) THEN "positive"
    ELSE IF \E w \in AppNegativeWords : Contains(question, w) THEN "negative"
    ELSE "neutral"

Range(f) == {f[k] : k \in DOMAIN f}

\* A choice of bucket that looks at the negative keywords first.
sim_candidates_negative_first(v, persona, question) ==
    IF v = "app"
    THEN LET generation == Get(persona, "generation", GenX)
             political_leaning == Get(persona, "political_leaning", Moderate)
             sentiment == IF \E w \in AppNegativeWords : Contains(question, w) THEN "negative"
                          ELSE IF \E w \in AppPositiveWords : Contains(question, w) THEN "positive"
                          ELSE "neutral"
             patterns == Get(app_response_patterns, generation, app_response_patterns[GenX])
         IN  IF political_leaning = Disengaged
             THEN Range(app_no_opinion_responses)
             ELSE Range(Get(patterns, sentiment, patterns["neutral"]))
    ELSE LET species == Get(persona, "species_name", "Rat")
             survival_priority == Get(persona, "survival_priority", DefaultPriority)
         IN  IF species \in DOMAIN run_response_patterns
             THEN Range(run_response_patterns[species])
             ELSE {run_generic_response(species, survival_priority, question)}

\* SimulationProvider.generate_response up to the choice of the response: the
\* texts random.choice can return for the persona and the question.
sim_candidates(v, persona, question) ==
    IF v = "app"
    THEN LET generation == Get(persona, "generation", GenX)
             political_leaning == Get(persona, "political_leaning", Moderate)
             sentiment == app_sentiment(question)
             patterns == Get(app_response_patterns, generation, app_response_patterns[GenX])
         IN  IF political_leaning = Disengaged
             THEN Range(app_no_opinion_responses)
             ELSE Range(Get(patterns, sentiment, patterns["neutral"]))
    ELSE LET species == Get(persona, "species_name", "Rat")
             survival_priority == Get(persona, "survival_priority", DefaultPriority)
         IN  IF species \in DOMAIN run_response_patterns
             THEN Range(run_response_patterns[species])
             ELSE {run_generic_response(species, survival_priority, question)}

\* A simulated generate_response that prices its tokens as the live one does.
sim_generate_priced(v, question, response) ==
    LET text == IF v = "app" THEN response ELSE Truncate(response, ResponseCap)
        input_tokens == IF v = "app" THEN Len(question) \div 3 + 100
                        ELSE NumWords(question) + 100
        output_tokens == IF v = "app" THEN Len(text) \div 3 ELSE NumWords(text) * 2
    IN  [result |-> [success |-> TRUE, text |-> text,
                     input_tokens |-> input_tokens,
                     output_tokens |-> output_tokens,
                     cost_usd |-> estimate_cost(input_tokens, output_tokens)],
         usage |-> <<<<input_tokens, output_tokens>>>>]

\* SimulationProvider.generate_response once the response text is chosen:
\* run.py truncates it to 100 characters, app.py does not; the token counts
\* come from the lengths (app.py) or the word counts (run.py).
sim_generate(v, question, response) ==
    LET text == IF v = "app" THEN response ELSE Truncate(response, ResponseCap)
        input_tokens == IF v = "app" THEN Len(question) \div 3 + 100
                        ELSE NumWords(question) + 100
        output_tokens == IF v = "app" THEN Len(text) \div 3 ELSE NumWords(text) * 2
    IN  [result |-> [success |-> TRUE, text |-> text,
                     input_tokens |-> input_tokens,
                     output_tokens |-> output_tokens,
                     cost_usd |-> 0],
         usage |-> <<<<input_tokens, output_tokens>>>>]

\* SimulationProvider.summarize_search_results: a fixed text around the
\* question (202 literal characters in app.py, 649 in run.py, 1 resp. 36 of
\* them in front of the question); run.py truncates to 300 characters before
\* the strip, app.py only strips.  No add_usage call is made.
sim_summarize(v, question) ==
    LET summary == IF v = "app"
                   THEN Lit(1) \o question \o Lit(201)
                   ELSE Truncate(Lit(36) \o question \o Lit(613), SummaryCap)
    IN  [result |-> [success |-> TRUE, text |-> Strip(summary),
                     input_tokens |-> 50, output_tokens |-> 100, cost_usd |-> 0],
         usage |-> <<>>]

\* SimulationProvider.analyze_responses: a fixed report (1805 characters in
\* app.py; 4557 in run.py, truncated to 3600).  No add_usage call is made.
sim_analyze(v) ==
    LET analysis == IF v = "app" THEN Lit(1805) ELSE Truncate(Lit(4557), AnalysisCap)
    IN  [result |-> [success |-> TRUE, text |-> Strip(analysis),
                     input_tokens |-> 200, output_tokens |-> 3000, cost_usd |-> 0],
         usage |-> <<>>]

\* ------------------------------------------------------------- inputs
Questions == {TextW(QuestionBase, 4, 1), TextW(QuestionBase, 9, 3)}
ContextInfos == {<<>>, Lit(6)}
PersonaIds == 1..2
\* What the completion call can do: return a content (short, padded with
\* spaces, or longer than the cap of the operation) or raise with a message.
ErrLens == {0, 20, 47, 50, 51, MaxErrLen}
Contents(op) ==
    {TextW(ContentBase, 12, 3),
     <<SP>> \o TextW(ContentBase, 5, 2) \o <<SP>>,
     TextW(ContentBase, CapOf(op) + 1, 4)}
Outcomes(op) ==
    {[raised |-> FALSE, text |-> c] : c \in Contents(op)}
        \cup {[raised |-> TRUE, text |-> TextW(ErrBase, n, 1)] : n \in ErrLens}
SearchResults == {<<Lit(3)>>, <<Lit(3), Lit(4)>>}
ResponseLists == {<<Lit(5)>>, <<Lit(5), Lit(7)>>}

\* The personas and the questions of single calls: every generation (and an
\* unknown one) with every political leaning, every species of the response
\* table and two without entry; a question without keyword, with a keyword
\* of either class, with both (the negative one first), with the characters
\* of a keyword apart, with an upper-case keyword, one of two words, and a
\* long one.
RichPersonas(v) ==
    {[id |-> 1]} \cup
    (IF v = "app"
     THEN {[id |-> 1, generation |-> g, political_leaning |-> l] :
               g \in GenerationLabels \cup {"unknown"}, l \in PoliticalLeanings}
     ELSE {[id |-> 1, species_name |-> sp, survival_priority |-> DefaultPriority] :
               sp \in DOMAIN run_response_patterns \cup {"Mackerel", "Cod"}})
LongQuestion == TextW(QuestionBase, 120, 5)
RichQuestions(v) ==
    LET plain == TextW(QuestionBase, 4, 1)
        pos == IF v = "app" THEN KW(12) ELSE KW(32)
        neg == IF v = "app" THEN KW(24) ELSE KW(40)
    IN  {plain, plain \o pos \o plain, plain \o neg, neg \o <<SP>> \o pos,
         <<pos[1]>> \o plain \o <<pos[2]>>, plain \o <<SP>> \o Upper(pos),
         TextW(QuestionBase, 6, 2), LongQuestion}

NoCall ==
    [provider |-> "none", op |-> "none", input |-> <<>>, prompt_tokens |-> 0, raised |-> FALSE,
     error |-> <<>>, content |-> <<>>, result |-> <<>>, pre |-> FreshTracker]

\* The providers after construction (each with a fresh CostTracker).
ProvidersFresh(variants) ==
    /\ variant \in variants
    /\ ncalls = [p \in Instances |-> 0]
    /\ last_call = NoCall
    /\ returned_total = [input_tokens |-> 0, output_tokens |-> 0, cost_usd |-> 0]

CallsLeft == ncalls["live"] + ncalls["sim"] < MaxCalls

\* The bookkeeping of a provider call that returned r = [result, usage]: the
\* ledger is charged with the add_usage calls the code made.  last_call keeps
\* the message of the exception (error) or the text the call started from
\* (content: the message content of a live call, the response chosen by the
\* simulated provider) and the arguments of the call (input).
Returned(p, op, input, ptok, outcome, r) ==
    /\ ncalls' = [ncalls EXCEPT ![p] = @ + 1]
    /\ last_call' = [provider |-> p, op |-> op, input |-> input, prompt_tokens |-> ptok,
                     raised |-> outcome.raised,
                     error |-> IF outcome.raised THEN outcome.text ELSE <<>>,
                     content |-> IF outcome.raised THEN <<>> ELSE outcome.text,
                     result |-> <<r.result>>, pre |-> cost_tracker[p]]
    /\ returned_total' =
           IF p = "live"
           THEN [input_tokens |-> returned_total.input_tokens + r.result.input_tokens,
                 output_tokens |-> returned_total.output_tokens + r.result.output_tokens,
                 cost_usd |-> returned_total.cost_usd + r.result.cost_usd]
           ELSE returned_total
    /\ IF r.usage = <<>>
       THEN UNCHANGED ledger_vars
       ELSE Charge(p, r.usage[1][1], r.usage[1][2])
    /\ UNCHANGED variant

NoRaise == [raised |-> FALSE, text |-> <<>>]

\* GPT4OMiniProvider.generate_response(persona, question, context_info)
LiveGenerate(persona, question, context_info, outcome) ==
    /\ CallsLeft
    /\ LET prompt == create_persona_prompt(persona, question, context_info)
       IN  Returned("live", "generate", [persona |-> persona, question |-> question, context_info |-> context_info],
                    count_tokens(variant, prompt), outcome,
                    live_call(variant, "generate", prompt, outcome))
    /\ UNCHANGED non_provider_vars

\* GPT4OMiniProvider.summarize_search_results(search_results, question)
LiveSummarize(search_results, question, outcome) ==
    /\ CallsLeft
    /\ LET prompt == create_search_summary_prompt(variant, search_results, question)
       IN  Returned("live", "summarize", [search_results |-> search_results, question |-> question],
                    count_tokens(variant, prompt), outcome,
                    live_call(variant, "summarize", prompt, outcome))
    /\ UNCHANGED non_provider_vars

\* GPT4OMiniProvider.analyze_responses(responses, question)
LiveAnalyze(responses, question, outcome) ==
    /\ CallsLeft
    /\ LET prompt == create_analysis_prompt(responses, question)
       IN  Returned("live", "analyze", [responses |-> responses, question |-> question],
                    count_tokens(variant, prompt), outcome,
                    live_call(variant, "analyze", prompt, outcome))
    /\ UNCHANGED non_provider_vars

\* SimulationProvider.generate_response(persona, question, context_info); the
\* response is any of the candidates (random.choice).
SimGenerate(persona, question, context_info) ==
    /\ CallsLeft
    /\ \E response \in sim_candidates(variant, persona, question) :
           Returned("sim", "generate", [persona |-> persona, question |-> question, context_info |-> context_info],
                    0, [raised |-> FALSE, text |-> response],
                    sim_generate(variant, question, response))
    /\ UNCHANGED non_provider_vars

\* SimulationProvider.summarize_search_results(search_results, question)
SimSummarize(search_results, question) ==
    /\ CallsLeft
    /\ Returned("sim", "summarize", [search_results |-> search_results, question |-> question],
                0, NoRaise, sim_summarize(variant, question))
    /\ UNCHANGED non_provider_vars

\* SimulationProvider.analyze_responses(responses, question)
SimAnalyze(responses, question) ==
    /\ CallsLeft
    /\ Returned("sim", "analyze", [responses |-> responses, question |-> question],
                0, NoRaise, sim_analyze(variant))
    /\ UNCHANGED non_provider_vars

\* ======================================================================
\* SurveyOrchestrator: execute_enhanced_survey / execute_species_survey
\* ======================================================================

\* The select box [10, 25, 50, 100] and session_state's default.
PersonaCounts == {10, 25, 50, 100}
DefaultPersonaCount == 10

\* The persona lists a session can hold: generate_personas and
\* generate_species_personas number the personas 1..n in list order.
Persona(v, i) ==
    IF v = "app"
    THEN [id |-> i, generation |-> IF i % 2 = 1 THEN GenX ELSE GenSenior,
          political_leaning |-> IF i % 2 = 1 THEN Moderate ELSE Conservative]
    ELSE [id |-> i, species_name |-> IF i % 2 = 1 THEN "Cod" ELSE "Rat",
          survival_priority |-> DefaultPriority]
PersonaList(v, n) == [i \in 1..n |-> Persona(v, i)]
PersonaLists(v) == {PersonaList(v, n) : n \in 0..MaxPersonas}

\* No call of the ResponseAnalyzer has been made.
NoAnalysis == [sentiment_of |-> <<>>, sentiment |-> <<>>, keywords_of |-> <<>>, keywords |-> <<>>]

\* No call of _safe_trim has been made.
NoTrim == [text |-> <<>>, max_length |-> 0, result |-> <<>>]

\* The analysis button has not been pressed: runs counts the presses, outcome
\* says how the last one ended, seen how the presses so far ended, analysed
\* holds the survey responses from which the stored result was computed.
NoAiRun == [runs |-> 0, outcome |-> "none", seen |-> {}, analysed |-> <<>>]

NoSurvey ==
    \* runs counts the calls of the function, failed holds the positions whose call raised
    [pc |-> "idle", personas |-> <<>>, question |-> <<>>, search_query |-> <<>>,
     search_results |-> <<>>, context_info |-> <<>>,
     search_summary |-> <<>>, provider |-> "none", i |-> 1, responses |-> <<>>,
     failed |-> {}, successful_count |-> 0, runs |-> 0]

\* The session before the first survey, holding one of the given persona lists.
SessionFresh(lists) ==
    /\ session_state \in
           [personas : lists, persona_count : {DefaultPersonaCount},
            use_real_llm : {FALSE}, api_key : {FALSE},
            llm_provider : {FALSE}, search_results : {<<>>}, search_summary : {<<>>},
            survey_responses : {<<>>}, ai_analysis : {<<>>}]
    /\ survey = NoSurvey
    /\ analyzer = NoAnalysis
    /\ ai_run = NoAiRun
    /\ safe_trim_call = NoTrim

\* setup_sidebar: the mode radio button, the API key field (api_key says
\* whether the field or the environment holds a key; without one the function
\* returns at once) and the select box of the number of personas.
SetupSidebar(use_real_llm, api_key, persona_count) ==
    /\ survey.pc # "loop"
    /\ alloc_pc \in {"idle", "done"}
    /\ session_state' = [session_state EXCEPT
           !.use_real_llm = use_real_llm,
           !.api_key = IF use_real_llm /\ api_key THEN TRUE ELSE @,
           !.persona_count = IF use_real_llm /\ ~api_key THEN @ ELSE persona_count]
    /\ UNCHANGED <<survey, alloc_vars, ledger_vars, provider_vars, analysis_vars, search_vars>>

\* A SimulationProvider() is constructed: its ledger is a new CostTracker.
NewSimLedger ==
    /\ cost_tracker' = [cost_tracker EXCEPT !["sim"] = FreshTracker]
    /\ usage_log' = [usage_log EXCEPT !["sim"] = <<>>]
    /\ ret_cost' = [ret_cost EXCEPT !["sim"] = NoValue]
    /\ ret_summary' = [ret_summary EXCEPT !["sim"] = <<>>]
    /\ reads_since' = [reads_since EXCEPT !["sim"] = 0]

\* f"【最新情報要約】\n{search_summary['summary']}"
ContextOf(summary) == Lit(9) \o summary

\* The response record built from a provider result with every record
\* counted as a success.
make_response_all_success(persona, question, result, context_info) ==
    [persona_id |-> persona.id, persona |-> persona, question |-> question,
     response |-> result.text, success |-> TRUE,
     cost_usd |-> result.cost_usd, context_used |-> context_info # <<>>]

\* A response record whose context flag is set for a successful call only.
make_response_context_if_success(persona, question, result, context_info) ==
    [persona_id |-> persona.id, persona |-> persona, question |-> question,
     response |-> result.text, success |-> result.success,
     cost_usd |-> result.cost_usd,
     context_used |-> context_info # <<>> /\ result.success]

\* The response record built in the survey loop (the timestamp, a wall-clock
\* reading, is left out).
make_response(persona, question, result, context_info) ==
    [persona_id |-> persona.id, persona |-> persona, question |-> question,
     response |-> result.text, success |-> result.success,
     cost_usd |-> result.cost_usd, context_used |-> context_info # <<>>]

\* The function up to the survey loop: the search and its summary, then the
\* choice of the provider.  search_results is what the web search returned,
\* outcome what the completion call of a live summary did, init_ok whether
\* GPT4OMiniProvider(api_key) could be constructed.
SurveyStart(question, search_query, search_results, outcome, init_ok) ==
    LET ss == session_state
        use_real_llm == ss.use_real_llm
        searched == search_query # <<>>
        summarized == searched /\ search_results # <<>>
        live_summary == summarized /\ use_real_llm /\ ss.llm_provider
        sim_summary == summarized /\ ~live_summary
        r == IF live_summary
             THEN live_call(variant, "summarize",
                            create_search_summary_prompt(variant, search_results, question),
                            outcome)
             ELSE sim_summarize(variant, question)
        search_summary == IF summarized THEN <<r.result>> ELSE <<>>
        context_info == IF summarized /\ r.result.success
                        THEN ContextOf(r.result.text) ELSE <<>>
        no_personas == variant = "run" /\ ss.personas = <<>>
        need_key == IF variant = "app" THEN ~ss.llm_provider ELSE TRUE
        need_new == ~ss.llm_provider
        refused == use_real_llm /\ ((need_key /\ ~ss.api_key) \/ (need_new /\ ~init_ok))
    IN  /\ survey.pc \in {"idle", "done"}
        /\ survey.runs < MaxSurveys
        /\ IF no_personas
           THEN UNCHANGED <<session_state, survey, ledger_vars, provider_vars>>
           ELSE /\ session_state' = [ss EXCEPT
                       !.search_results = IF searched THEN search_results ELSE @,
                       !.llm_provider = @ \/ (use_real_llm /\ ~refused)]
                /\ survey' = IF refused
                             THEN [survey EXCEPT !.pc = "idle", !.runs = @ + 1]
                             ELSE [pc |-> "loop", personas |-> ss.personas,
                                   question |-> question, search_query |-> search_query,
                                   search_results |-> IF searched THEN search_results
                                                      ELSE <<>>,
                                   context_info |-> context_info,
                                   search_summary |-> search_summary,
                                   provider |-> IF use_real_llm THEN "live" ELSE "sim",
                                   i |-> 1, responses |-> <<>>, failed |-> {},
                                   successful_count |-> 0, runs |-> survey.runs + 1]
                /\ IF live_summary
                   THEN Returned("live", "summarize", [search_results |-> search_results, question |-> question],
                                 count_tokens(variant,
                                     create_search_summary_prompt(variant, search_results, question)),
                                 outcome, r)
                   ELSE /\ IF sim_summary \/ (~use_real_llm /\ ~refused)
                           THEN NewSimLedger
                           ELSE UNCHANGED ledger_vars
                        /\ ncalls' = [ncalls EXCEPT !["sim"] =
                                         IF sim_summary \/ (~use_real_llm /\ ~refused)
                                         THEN 0 ELSE @]
                        /\ last_call' = IF sim_summary
                                        THEN [provider |-> "sim", op |-> "summarize",
                                              input |-> [search_results |-> search_results, question |-> question],
                                              prompt_tokens |-> 0, raised |-> FALSE,
                                              error |-> <<>>, content |-> <<>>,
                                              result |-> <<r.result>>,
                                              pre |-> FreshTracker]
                                        ELSE last_call
                        /\ UNCHANGED <<variant, returned_total>>
        /\ UNCHANGED <<alloc_vars, analysis_vars, search_vars>>

\* One iteration of the survey loop with the response inserted at the front.
SurveyStepPrepend(outcome) ==
    /\ survey.pc = "loop"
    /\ survey.i <= Len(survey.personas)
    /\ \E response \in sim_candidates(variant, survey.personas[survey.i], survey.question) :
       LET persona == survey.personas[survey.i]
           prompt == create_persona_prompt(persona, survey.question, survey.context_info)
           r == IF survey.provider = "live"
                THEN live_call(variant, "generate", prompt, outcome)
                ELSE sim_generate(variant, survey.question, response)
           o == IF survey.provider = "live" THEN outcome
                ELSE [raised |-> FALSE, text |-> response]
       IN  /\ Returned(survey.provider, "generate",
                       [persona |-> persona, question |-> survey.question,
                        context_info |-> survey.context_info],
                       IF survey.provider = "live" THEN count_tokens(variant, prompt) ELSE 0,
                       o, r)
           /\ survey' = [survey EXCEPT
                  !.responses = <<make_response(persona, survey.question, r.result,
                                                survey.context_info)>> \o @,
                  !.failed = IF o.raised THEN @ \cup {survey.i} ELSE @,
                  !.i = @ + 1]
    /\ UNCHANGED <<session_state, alloc_vars, analysis_vars, search_vars>>

\* One iteration of the survey loop: provider.generate_response for the next
\* persona and the append of its record.  outcome is what the completion call
\* of the live provider did, response the text the simulated provider chose.
SurveyStep(outcome) ==
    /\ survey.pc = "loop"
    /\ survey.i <= Len(survey.personas)
    /\ \E response \in sim_candidates(variant, survey.personas[survey.i], survey.question) :
       LET persona == survey.personas[survey.i]
           prompt == create_persona_prompt(persona, survey.question, survey.context_info)
           r == IF survey.provider = "live"
                THEN live_call(variant, "generate", prompt, outcome)
                ELSE sim_generate(variant, survey.question, response)
           o == IF survey.provider = "live" THEN outcome
                ELSE [raised |-> FALSE, text |-> response]
       IN  /\ Returned(survey.provider, "generate",
                       [persona |-> persona, question |-> survey.question,
                        context_info |-> survey.context_info],
                       IF survey.provider = "live" THEN count_tokens(variant, prompt) ELSE 0,
                       o, r)
           /\ survey' = [survey EXCEPT
                  !.responses = Append(@, make_response(persona, survey.question, r.result,
                                                        survey.context_info)),
                  !.failed = IF o.raised THEN @ \cup {survey.i} ELSE @,
                  !.i = @ + 1]
    /\ UNCHANGED <<session_state, alloc_vars, analysis_vars, search_vars>>

\* len([r for r in responses if r['success']])
SuccessfulCount(responses) ==
    Cardinality({k \in 1..Len(responses) : responses[k].success})

\* After the loop: the summary and the responses are stored in the session and
\* the number of successful responses is reported.
SurveyFinish ==
    /\ survey.pc = "loop"
    /\ survey.i > Len(survey.personas)
    /\ session_state' = [session_state EXCEPT
           !.search_summary = IF survey.search_summary # <<>>
                              THEN survey.search_summary ELSE @,
           !.survey_responses = survey.responses]
    /\ survey' = [survey EXCEPT
           !.successful_count = SuccessfulCount(survey.responses),
           !.pc = "done"]
    /\ UNCHANGED <<alloc_vars, ledger_vars, provider_vars, analysis_vars, search_vars>>

\* ------------------------------------------------------------- inputs
SearchQueries == {<<>>, Lit(3)}
SurveyQuestions == {TextW(QuestionBase, 4, 1)}
SearchReturns == {<<>>, <<Lit(3), Lit(4)>>}
SummaryOutcomes ==
    {[raised |-> FALSE, text |-> TextW(ContentBase, 12, 3)],
     [raised |-> TRUE, text |-> TextW(ErrBase, 20, 1)]}
SurveyOutcomes ==
    {[raised |-> FALSE, text |-> TextW(ContentBase, 12, 3)],
     [raised |-> TRUE, text |-> TextW(ErrBase, 51, 1)]}

\* --------------------------- execute_ai_analysis / execute_species_ai_analysis
\* The texts of all the records, failed ones included.
AllResponseTexts(responses) == [k \in 1..Len(responses) |-> responses[k].response]

\* [r['response'] for r in responses if r.get('success', True)]
RECURSIVE SuccessfulResponses(_)
SuccessfulResponses(responses) ==
    IF responses = <<>> THEN <<>>
    ELSE (IF responses[1].success THEN <<responses[1].response>> ELSE <<>>)
             \o SuccessfulResponses(Tail(responses))

\* A handler that drops the collected responses when the analysis failed.
store_analysis_dropping(ss, analysis_result) ==
    [ss EXCEPT !.ai_analysis = <<analysis_result>>,
               !.survey_responses = IF analysis_result.success THEN @ ELSE <<>>]

\* st.session_state.ai_analysis = analysis_result
store_analysis(ss, analysis_result) ==
    [ss EXCEPT !.ai_analysis = <<analysis_result>>]

\* The button of the analysis tab, shown once a survey has stored responses:
\* the handler returns at once without a successful response (run.py makes
\* this test in the tab) or, in live mode, without a provider; otherwise it
\* takes the session's live provider or a new SimulationProvider(), stores
\* what analyze_responses returns and only reports an exception.  outcome is
\* what the completion call of the live provider did, escaped whether the
\* call raised outside the provider's own try block.  The responses of a
\* survey are shorter than the 200 characters and fewer than the 100 (50)
\* that run.py passes on.
ExecuteAiAnalysis(outcome, escaped) ==
    LET ss == session_state
        responses == ss.survey_responses
        question == responses[1].question
        successful_responses == SuccessfulResponses(responses)
        live == ss.use_real_llm
        prompt == create_analysis_prompt(successful_responses, question)
        input == [responses |-> successful_responses, question |-> question]
        ended == IF successful_responses = <<>> THEN "no_responses"
                 ELSE IF live /\ ~ss.llm_provider THEN "no_provider"
                 ELSE IF escaped THEN "raised" ELSE "returned"
        r == IF live THEN live_call(variant, "analyze", prompt, outcome)
             ELSE sim_analyze(variant)
    IN  /\ survey.pc # "loop"
        /\ ss.survey_responses # <<>>
        /\ ai_run.runs < MaxAnalyses
        /\ ai_run' = [runs |-> ai_run.runs + 1, outcome |-> ended,
                      seen |-> ai_run.seen \cup {ended},
                      analysed |-> IF ended = "returned" THEN responses ELSE ai_run.analysed]
        /\ session_state' = IF ended = "returned" THEN store_analysis(ss, r.result) ELSE ss
        /\ IF ended \in {"no_responses", "no_provider"} \/ (live /\ escaped)
           THEN UNCHANGED <<ledger_vars, provider_vars>>
           ELSE IF live
           THEN Returned("live", "analyze", input, count_tokens(variant, prompt), outcome, r)
           ELSE /\ NewSimLedger
                /\ ncalls' = [ncalls EXCEPT !["sim"] = IF escaped THEN 0 ELSE 1]
                /\ last_call' = IF escaped THEN last_call
                                ELSE [provider |-> "sim", op |-> "analyze", input |-> input,
                                      prompt_tokens |-> 0, raised |-> FALSE,
                                      error |-> <<>>, content |-> <<>>,
                                      result |-> <<r.result>>, pre |-> FreshTracker]
                /\ UNCHANGED <<variant, returned_total>>
        /\ UNCHANGED <<survey, alloc_vars, analyzer, search_vars>>

\* What the completion call of the analysis can do.
AnalysisOutcomes ==
    {[raised |-> FALSE, text |-> TextW(ContentBase, 12, 3)],
     [raised |-> TRUE, text |-> TextW(ErrBase, 51, 1)]}

\* ======================================================================
\* PersonaGenerator: generate_personas / generate_species_personas
\* ======================================================================

\* A get_generation_label whose first band ends one year early.
get_generation_label_early(age) ==
    IF age < 24 THEN GenZ
    ELSE IF age <= 39 THEN GenMillennial
    ELSE IF age <= 54 THEN GenX
    ELSE IF age <= 64 THEN GenBubble
    ELSE GenSenior

\* PersonaGenerator.get_generation_label
get_generation_label(age) ==
    IF age <= 24 THEN GenZ
    ELSE IF age <= 39 THEN GenMillennial
    ELSE IF age <= 54 THEN GenX
    ELSE IF age <= 64 THEN GenBubble
    ELSE GenSenior

\* The random draws of generate_persona: ages of the ranges of
\* age_distribution ((0, 14) ... (75, 100)) at and around the band limits,
\* two of the occupations, the four political leanings.
Ages == <<0, 14, 20, 21, 24, 25, 34, 39, 40, 54, 55, 64, 65, 74, 100>>
Student == "student"
Occupations == <<"office worker", Student>>
Leanings == <<Conservative, Moderate, Liberal, Disengaged>>

\* A generate_persona that makes a student of every persona.
generate_persona_all_students(persona_id, age, occupation_draw, leaning_draw) ==
    [id |-> persona_id, age |-> age, occupation |-> Student,
     political_leaning |-> leaning_draw, generation |-> get_generation_label(age)]

\* PersonaGenerator.generate_persona followed by adjust_by_demographics, which
\* sets political_leaning (and urban_rural): age, occupation_draw and
\* leaning_draw are what random returned.
generate_persona(persona_id, age, occupation_draw, leaning_draw) ==
    [id |-> persona_id, age |-> age,
     occupation |-> IF age <= 20 THEN Student ELSE occupation_draw,
     political_leaning |-> leaning_draw, generation |-> get_generation_label(age)]

\* The draws of the i-th call of a run of the generator, by its seed.
Pick(seq, n) == seq[(n % Len(seq)) + 1]
Seeds == 0..MaxSeed

\* for i in range(persona_count): personas.append(asdict(generate_persona(i + 1)))
demographic_personas(persona_count, seed) ==
    [k \in 1..persona_count |->
        LET i == k - 1
        IN  generate_persona(i + 1, Pick(Ages, seed + k), Pick(Occupations, seed + k \div 3),
                             Pick(Leanings, seed + k \div 2))]

\* generate_personas (app.py)
GeneratePersonas(seed) ==
    /\ variant = "app"
    /\ survey.pc # "loop"
    /\ session_state' = [session_state EXCEPT
           !.personas = demographic_personas(session_state.persona_count, seed)]
    /\ UNCHANGED <<survey, alloc_vars, ledger_vars, provider_vars, analysis_vars, search_vars>>

\* The species of GlobalSpeciesDB.species_population in dictionary order, and
\* their populations in units of 250000 individuals.
SpeciesNames ==
    <<"Herring", "Mackerel", "Cod", "Salmon", "Tuna", "Chicken", "Sparrow", "Crow",
      "Pigeon", "Rat", "Bat", "Dog", "Cat", "Cattle", "Sheep", "Goat", "Pig",
      "Wildebeest", "Zebra", "Elephant", "Dolphin", "Whale", "Snake", "Frog">>
TableDB ==
    <<3200000, 1200000, 800000, 400000, 200000, 132000, 2000, 1600,
      1200, 40000, 4000, 4000, 2400, 4000, 4800, 4400, 2800,
      8, 3, 2, 24, 8, 400, 200>>

\* species_chars['priorities'], by two texts.
Priorities == <<DefaultPriority, Lit(9)>>

\* SpeciesPersonaGenerator.generate_species_persona
generate_species_persona(persona_id, species, priority_draw) ==
    [id |-> persona_id, species_name |-> SpeciesNames[species],
     individual_name |-> <<SpeciesNames[species], persona_id>>,
     survival_priority |-> priority_draw]

\* The loops of generate_species_personas with the id restarted for each species.
RECURSIVE species_personas_restarting(_, _, _)
species_personas_restarting(dist, persona_id, seed) ==
    IF dist = <<>> THEN <<>>
    ELSE LET species == dist[1][1]
             count == dist[1][2]
         IN  [j \in 1..count |->
                 generate_species_persona(j, species, Pick(Priorities, seed + j))]
                 \o species_personas_restarting(Tail(dist), persona_id + count, seed)

\* for species, count in species_distribution.items():
\*     for _ in range(count): personas.append(...(persona_id, species)); persona_id += 1
RECURSIVE species_personas(_, _, _)
species_personas(dist, persona_id, seed) ==
    IF dist = <<>> THEN <<>>
    ELSE LET species == dist[1][1]
             count == dist[1][2]
         IN  [j \in 1..count |->
                 generate_species_persona(persona_id + j - 1, species,
                                          Pick(Priorities, seed + persona_id + j))]
                 \o species_personas(Tail(dist), persona_id + count, seed)

\* generate_species_personas (run.py) after calculate_species_distribution
\* has returned.
GenerateSpeciesPersonas(seed) ==
    /\ variant = "run"
    /\ alloc_pc = "done"
    /\ survey.pc # "loop"
    /\ session_state' = [session_state EXCEPT
           !.personas = species_personas(species_distribution, 1, seed)]
    /\ UNCHANGED <<survey, alloc_vars, ledger_vars, provider_vars, analysis_vars, search_vars>>

\* ======================================================================
\* ResponseAnalyzer
\* ======================================================================

\* The sentiment lexicons, each word abridged to two characters:
\*   app.py  ['良い', '期待', '希望', '賛成', '支持'] / ['悪い', '不安', '心配', '反対', '問題']
\*   run.py  ['good', 'necessary', 'important', 'cooperation', 'protection',
\*            'development', 'prosperity'] / ['dangerous', 'difficult', 'threat',
\*            'anxiety', 'problem', 'decline', 'destruction']
positive_words(v) ==
    IF v = "app" THEN {KW(6000), KW(6002), KW(6004), KW(6006), KW(6008)}
    ELSE {KW(6020), KW(6022), KW(6024), KW(6026), KW(6028), KW(6030), KW(6032)}
negative_words(v) ==
    IF v = "app" THEN {KW(6010), KW(6012), KW(6014), KW(6016), KW(6018)}
    ELSE {KW(6034), KW(6036), KW(6038), KW(6040), KW(6042), KW(6044), KW(6046)}

\* text.count(word): the occurrences that do not overlap, from the left.
RECURSIVE CountFrom(_, _, _)
CountFrom(text, word, i) ==
    IF i + Len(word) - 1 > Len(text) THEN 0
    ELSE IF SubSeq(text, i, i + Len(word) - 1) = word
         THEN 1 + CountFrom(text, word, i + Len(word))
         ELSE CountFrom(text, word, i + 1)
StrCount(text, word) == CountFrom(text, word, 1)

\* sum(response.count(word) for word in words)
RECURSIVE Score(_, _)
Score(text, words) ==
    IF words = {} THEN 0
    ELSE LET w == CHOOSE w \in words : TRUE
         IN  StrCount(text, w) + Score(text, words \ {w})

\* A classification that counts a tie as positive.
classify_ties_positive(v, response) ==
    LET text == IF v = "run" THEN Lower(response) ELSE response
        pos_score == Score(text, positive_words(v))
        neg_score == Score(text, negative_words(v))
    IN  IF pos_score >= neg_score THEN "positive"
        ELSE IF neg_score > pos_score THEN "negative"
        ELSE "neutral"

\* The body of the loop of analyze_sentiment: the class of one response
\* (run.py scores response.lower()).
classify(v, response) ==
    LET text == IF v = "run" THEN Lower(response) ELSE response
        pos_score == Score(text, positive_words(v))
        neg_score == Score(text, negative_words(v))
    IN  IF pos_score > neg_score THEN "positive"
        ELSE IF neg_score > pos_score THEN "negative"
        ELSE "neutral"

\* count / total * 100, kept as the fraction <<count * 100, total>>.
Percentage(count, total) == <<count * 100, total>>

\* ResponseAnalyzer.analyze_sentiment for a non-empty list.
analyze_sentiment(v, responses) ==
    LET CountOfClass(c) ==
            Cardinality({k \in 1..Len(responses) : classify(v, responses[k]) = c})
        total == Len(responses)
    IN  [positive |-> Percentage(CountOfClass("positive"), total),
         negative |-> Percentage(CountOfClass("negative"), total),
         neutral  |-> Percentage(CountOfClass("neutral"), total)]

\* analyzer.analyze_sentiment(responses); an empty list raises
\* ZeroDivisionError at the first division.
AnalyzeSentiment(responses) ==
    /\ analyzer' = [analyzer EXCEPT
           !.sentiment_of = responses,
           !.sentiment = IF responses = <<>>
                         THEN <<[error |-> "ZeroDivisionError"]>>
                         ELSE <<analyze_sentiment(variant, responses)>>]
    /\ UNCHANGED <<ai_run, non_analysis_vars, search_vars>>

\* The responses analysed: without a word of the lexicons, with a positive
\* word (in upper case for run.py), with a negative word, with one of each,
\* with two positive and one negative, with one positive and two negative.
SentimentTexts(v) ==
    LET pos == CHOOSE w \in positive_words(v) : w[1] \in {6000, 6020}
        pos2 == CHOOSE w \in positive_words(v) : w[1] \in {6008, 6032}
        neg == CHOOSE w \in negative_words(v) : w[1] \in {6010, 6034}
        neg2 == CHOOSE w \in negative_words(v) : w[1] \in {6018, 6046}
    IN  {Lit(3),
         Lit(1) \o (IF v = "run" THEN Upper(pos) ELSE pos) \o Lit(1),
         neg \o Lit(2),
         pos \o neg2,
         pos \o pos2 \o neg,
         neg \o pos \o neg2}
SentimentInputs(v) == UNION {[1..n -> SentimentTexts(v)] : n \in 0..MaxResponses}

\* ------------------------------------------------------ extract_keywords
\* The characters of a response: hiragana (7000..7099), katakana (7100..7199),
\* kanji (7200..7299), lower-case letters (7300..7349, their upper case
\* UpperShift higher), digits (7400..7409); anything else is punctuation.
IsHiragana(c) == c >= 7000 /\ c < 7100
IsKatakana(c) == c >= 7100 /\ c < 7200
IsKanji(c) == c >= 7200 /\ c < 7300
IsLetter(c) == c >= 7300 /\ c < 7350
IsDigit(c) == c >= 7400 /\ c < 7410

\* The alternatives of the pattern that can match the character:
\*   app.py                 [ぁ-ゟ]+|[ァ-ヿ]+|[一-龯]+
\*   world_listening_ja.py  [ぁ-んァ-ヶ一-龯]{2,}
\*   run.py                 \b[a-z]{3,}\b   (the run of word characters)
Group(v, c) ==
    IF v = "app"
    THEN IF IsHiragana(c) THEN "hiragana"
         ELSE IF IsKatakana(c) THEN "katakana"
         ELSE IF IsKanji(c) THEN "kanji" ELSE "none"
    ELSE IF v = "ja"
    THEN IF IsHiragana(c) \/ IsKatakana(c) \/ IsKanji(c) THEN "japanese" ELSE "none"
    ELSE IF IsLetter(c) \/ IsDigit(c) \/ IsLetter(c - UpperShift) THEN "word" ELSE "none"

\* The last position of the run of one group that starts at i.
RECURSIVE RunEnd(_, _, _)
RunEnd(v, text, i) ==
    IF i < Len(text) /\ Group(v, text[i + 1]) = Group(v, text[i])
    THEN RunEnd(v, text, i + 1) ELSE i

\* The run is a match of the pattern.
Matches(v, tok) ==
    IF v = "app" THEN TRUE
    ELSE IF v = "ja" THEN Len(tok) >= 2
    ELSE Len(tok) >= 3 /\ \A k \in 1..Len(tok) : IsLetter(tok[k])

\* re.findall(pattern, all_text)
RECURSIVE FindAll(_, _, _)
FindAll(v, text, i) ==
    IF i > Len(text) THEN <<>>
    ELSE IF Group(v, text[i]) = "none" THEN FindAll(v, text, i + 1)
    ELSE LET j == RunEnd(v, text, i)
             tok == SubSeq(text, i, j)
         IN  (IF Matches(v, tok) THEN <<tok>> ELSE <<>>) \o FindAll(v, text, j + 1)

\* ' '.join(responses)
RECURSIVE JoinSpace(_)
JoinSpace(ts) ==
    IF ts = <<>> THEN <<>>
    ELSE IF Len(ts) = 1 THEN ts[1]
    ELSE ts[1] \o <<SP>> \o JoinSpace(Tail(ts))

\* self.stop_words, by the words that a pattern can match and one that is a
\* single character: 'の', 'から' (and 'こと' in world_listening_ja.py);
\* 'the', 'and', 'we'.
stop_words(v) ==
    IF v = "app" THEN {<<7090>>, <<7098, 7099>>}
    ELSE IF v = "ja" THEN {<<7090>>, <<7098, 7099>>, <<7088, 7089>>}
    ELSE {<<7340, 7341, 7342>>, <<7343, 7344, 7345>>, <<7346, 7347>>}

\* The filter of the word list.
Kept(v, word) ==
    IF v = "app" THEN Len(word) > 1 /\ word \notin stop_words(v)
    ELSE word \notin stop_words(v)

RECURSIVE SelectKept(_, _)
SelectKept(v, words) ==
    IF words = <<>> THEN <<>>
    ELSE (IF Kept(v, words[1]) THEN <<words[1]>> ELSE <<>>) \o SelectKept(v, Tail(words))

\* Counter(filtered_words): the words in the order of their first
\* occurrence, each with its number of occurrences.
RECURSIVE FirstSeen(_, _)
FirstSeen(words, seen) ==
    IF words = <<>> THEN <<>>
    ELSE IF words[1] \in seen THEN FirstSeen(Tail(words), seen)
    ELSE <<words[1]>> \o FirstSeen(Tail(words), seen \cup {words[1]})
Counter(words) ==
    LET keys == FirstSeen(words, {})
    IN  [k \in 1..Len(keys) |->
            [word |-> keys[k],
             count |-> Cardinality({i \in 1..Len(words) : words[i] = keys[k]})]]

\* Counter.most_common(n): the n largest counts, equal counts in the order
\* of the Counter.
MostCommonN == 15
RemoveAt(seq, m) == SubSeq(seq, 1, m - 1) \o SubSeq(seq, m + 1, Len(seq))
RECURSIVE most_common(_, _)
most_common(items, n) ==
    IF n = 0 \/ items = <<>> THEN <<>>
    ELSE LET m == CHOOSE k \in 1..Len(items) : \A j \in 1..Len(items) :
                      \/ items[j].count < items[k].count
                      \/ items[j].count = items[k].count /\ k <= j
         IN  <<items[m]>> \o most_common(RemoveAt(items, m), n - 1)

\* An extract_keywords that counts the stop words too.
extract_keywords_unfiltered(v, responses) ==
    LET joined == JoinSpace(responses)
        all_text == IF v = "run" THEN Lower(joined) ELSE joined
        words == FindAll(v, all_text, 1)
    IN  most_common(Counter(words), MostCommonN)

\* ResponseAnalyzer.extract_keywords
extract_keywords(v, responses) ==
    LET joined == JoinSpace(responses)
        all_text == IF v = "run" THEN Lower(joined) ELSE joined
        words == FindAll(v, all_text, 1)
        filtered_words == SelectKept(v, words)
    IN  most_common(Counter(filtered_words), MostCommonN)

\* analyzer.extract_keywords(responses)
ExtractKeywords(responses) ==
    /\ analyzer' = [analyzer EXCEPT
           !.keywords_of = responses,
           !.keywords = <<extract_keywords(variant, responses)>>]
    /\ UNCHANGED <<ai_run, non_analysis_vars, search_vars>>

\* The k-th word of a response: two kanji, or three letters.
Word(v, k) == IF v = "run" THEN <<7300 + k, 7300 + k, 7300 + k>> ELSE <<7200 + k, 7200 + k>>
RECURSIVE WordsFromTo(_, _, _)
WordsFromTo(v, a, b) ==
    IF a > b THEN <<>>
    ELSE IF a = b THEN Word(v, a)
    ELSE Word(v, a) \o <<SP>> \o WordsFromTo(v, a + 1, b)

\* The lists analysed: none; seventeen different words; seventeen words, the
\* last one and the third one once more in a second response; the same word
\* at the end of a response and at the start of the next; only stop words;
\* and words next to stop words, to a single character, to another script,
\* to a digit and in upper case.
KeywordInputs(v) ==
    LET stop == CHOOSE w \in stop_words(v) : Len(w) > 1 /\ (v = "run" => Len(w) = 3)
        mixed == IF v = "run"
                 THEN Upper(Word(v, 1)) \o <<SP>> \o Word(v, 2) \o <<7401, SP>> \o stop
                          \o <<SP, 7305, 7306, SP>> \o Word(v, 1) \o <<DOT>> \o Word(v, 3)
                 ELSE Word(v, 1) \o <<7001, 7002, SP>> \o stop \o <<SP, 7090, SP, 7203, SP>>
                          \o Word(v, 1) \o <<7101, 7102>> \o Word(v, 3)
    IN  {<<>>,
         <<WordsFromTo(v, 1, 17)>>,
         <<WordsFromTo(v, 1, 17), Word(v, 17) \o <<SP>> \o Word(v, 3)>>,
         <<Word(v, 1), Word(v, 1) \o <<SP>> \o Word(v, 2)>>,
         <<stop, stop>>,
         <<mixed, Word(v, 3) \o <<SP>> \o stop \o <<SP>> \o Word(v, 2) \o <<SP>> \o Word(v, 3)>>}

\* ======================================================================
\* WebSearchProvider: _safe_trim
\* ======================================================================

\* str.rfind(' '): the index, counted from 0, of the last space, -1 without one.
RFindSpace(text) ==
    LET at == {i \in 1..Len(text) : text[i] = SP}
    IN  IF at = {} THEN -1 ELSE (CHOOSE i \in at : \A j \in at : j <= i) - 1

\* WebSearchProvider._safe_trim; last_space > max_length * 0.8 is compared in
\* fifths.
safe_trim(text, max_length) ==
    IF text = <<>> THEN <<>>
    ELSE IF Len(text) <= max_length THEN text
    ELSE LET trimmed == Slice(text, max_length)
             last_space == RFindSpace(trimmed)
         IN  IF 5 * last_space > 4 * max_length
             THEN Slice(trimmed, last_space) \o Ellipsis
             ELSE Slice(trimmed, max_length - 3) \o Ellipsis

\* self._safe_trim(text, max_length)
SafeTrim(text, max_length) ==
    /\ safe_trim_call' = [text |-> text, max_length |-> max_length,
                          result |-> <<safe_trim(text, max_length)>>]
    /\ UNCHANGED non_search_vars

\* The texts trimmed: every text of letters and spaces up to MaxTrimLen
\* characters; the maximal lengths from 3 on.
TrimTexts == UNION {[1..n -> {SP, LIT}] : n \in 0..MaxTrimLen}
TrimLengths == 3..MaxTrimLen

\* ======================================================================
\* Specifications
\* ======================================================================

\* The allocator, over every table.
AllocInit ==
    /\ AllocIdle(Tables)
    /\ LedgerFresh
    /\ ProvidersFresh({"run"})
    /\ SessionFresh({<<>>})

AllocNext ==
    \/ \E N \in Totals : CalcStart(N)
    \/ CalcLoop
    \/ CalcLoopEnd
    \/ CalcLast

SpecAlloc == AllocInit /\ [][AllocNext]_vars

\* The ledgers alone, driven by direct calls.
LedgerInit ==
    /\ AllocIdle({TableABC})
    /\ LedgerFresh
    /\ ProvidersFresh({"app"})
    /\ SessionFresh({<<>>})

LedgerNext ==
    \/ \E p \in Instances : \E a \in UsageArgs : AddUsage(p, a[1], a[2])
    \/ \E p \in Instances : GetTotalCost(p)
    \/ \E p \in Instances : GetCostSummary(p)

SpecLedger == LedgerInit /\ [][LedgerNext]_vars

\* The two providers, driven by direct calls.
ProviderInit ==
    /\ AllocIdle({TableABC})
    /\ LedgerFresh
    /\ ProvidersFresh({"app", "run"})
    /\ SessionFresh({<<>>})

ProviderNext ==
    \/ \E i \in PersonaIds, q \in Questions, c \in ContextInfos, o \in Outcomes("generate") :
           LiveGenerate([id |-> i], q, c, o)
    \/ \E sr \in SearchResults, q \in Questions, o \in Outcomes("summarize") :
           LiveSummarize(sr, q, o)
    \/ \E rs \in ResponseLists, q \in Questions, o \in Outcomes("analyze") :
           LiveAnalyze(rs, q, o)
    \/ \E i \in PersonaIds, q \in Questions, c \in ContextInfos :
           SimGenerate([id |-> i], q, c)
    \/ \E sr \in SearchResults, q \in Questions : SimSummarize(sr, q)
    \/ \E rs \in ResponseLists, q \in Questions : SimAnalyze(rs, q)

SpecProvider == ProviderInit /\ [][ProviderNext]_vars

\* The first call made on the providers, with every kind of persona and
\* question.
FirstCall == ncalls["live"] + ncalls["sim"] = 0

RespondNext ==
    /\ FirstCall
    /\ \/ \E pe \in RichPersonas(variant), q \in RichQuestions(variant), c \in ContextInfos,
              o \in Outcomes("generate") : LiveGenerate(pe, q, c, o)
       \/ \E sr \in SearchResults, q \in RichQuestions(variant), o \in Outcomes("summarize") :
              LiveSummarize(sr, q, o)
       \/ \E rs \in ResponseLists, q \in RichQuestions(variant), o \in Outcomes("analyze") :
              LiveAnalyze(rs, q, o)
       \/ \E pe \in RichPersonas(variant), q \in RichQuestions(variant), c \in ContextInfos :
              SimGenerate(pe, q, c)
       \/ \E sr \in SearchResults, q \in RichQuestions(variant) : SimSummarize(sr, q)
       \/ \E rs \in ResponseLists, q \in RichQuestions(variant) : SimAnalyze(rs, q)

SpecRespond == ProviderInit /\ [][RespondNext]_vars

\* The generation of the persona list, in either mode; the species tables
\* are the one of GlobalSpeciesDB and a few small ones.
PersonaTables == {TableDB, TableABC, TableCAB, <<2, 2>>, <<1>>}

PersonaInit ==
    /\ AllocIdle(PersonaTables)
    /\ LedgerFresh
    /\ ProvidersFresh({"app", "run"})
    /\ SessionFresh({<<>>})

PersonaNext ==
    \/ \E u \in BOOLEAN, k \in BOOLEAN, n \in PersonaCounts : SetupSidebar(u, k, n)
    \/ \E seed \in Seeds : GeneratePersonas(seed)
    \/ variant = "run" /\ CalcStart(session_state.persona_count)
    \/ variant = "run" /\ CalcLoop
    \/ variant = "run" /\ CalcLoopEnd
    \/ variant = "run" /\ CalcLast
    \/ \E seed \in Seeds : GenerateSpeciesPersonas(seed)

SpecPersona == PersonaInit /\ [][PersonaNext]_vars

\* The analyzer applied to lists of responses; "ja" is the analyzer of
\* world_listening_ja.py, whose tokens differ from those of app.py.
AnalyzerInit ==
    /\ AllocIdle({TableABC})
    /\ LedgerFresh
    /\ ProvidersFresh({"app", "run", "ja"})
    /\ SessionFresh({<<>>})

\* The analyzer keeps no state between calls: one call is looked at.
FirstAnalysis == analyzer = NoAnalysis

AnalyzerNext ==
    \/ FirstAnalysis /\ \E rs \in SentimentInputs(variant) : AnalyzeSentiment(rs)
    \/ FirstAnalysis /\ \E rs \in KeywordInputs(variant) : ExtractKeywords(rs)

SpecAnalyzer == AnalyzerInit /\ [][AnalyzerNext]_vars

\* The WebSearchProvider of run.py and world_listening_ja.py.
TrimInit ==
    /\ AllocIdle({TableABC})
    /\ LedgerFresh
    /\ ProvidersFresh({"run"})
    /\ SessionFresh({<<>>})

\* _safe_trim keeps no state between calls: one call is looked at.
FirstTrim == safe_trim_call = NoTrim

TrimNext ==
    FirstTrim /\ \E text \in TrimTexts, max_length \in TrimLengths : SafeTrim(text, max_length)

SpecTrim == TrimInit /\ [][TrimNext]_vars

\* A session running surveys over its persona list.
SurveyInit ==
    /\ AllocIdle({TableABC})
    /\ LedgerFresh
    /\ ProvidersFresh({"app", "run"})
    /\ SessionFresh(PersonaLists(variant))

SurveyNext ==
    \/ \E u \in BOOLEAN, k \in BOOLEAN : SetupSidebar(u, k, DefaultPersonaCount)
    \/ \E q \in SurveyQuestions, sq \in SearchQueries, sr \in SearchReturns,
          o \in SummaryOutcomes, ok \in BOOLEAN : SurveyStart(q, sq, sr, o, ok)
    \/ \E o \in SurveyOutcomes : SurveyStep(o)
    \/ SurveyFinish

SpecSurvey == SurveyInit /\ [][SurveyNext]_vars

\* One survey without a web search, and the analysis of its responses.
FirstSurvey == survey.runs = 0 \/ survey.pc = "loop"

AiAnalysisNext ==
    \/ \E u \in BOOLEAN, k \in BOOLEAN : SetupSidebar(u, k, DefaultPersonaCount)
    \/ FirstSurvey /\ \E q \in SurveyQuestions, o \in SummaryOutcomes, ok \in BOOLEAN :
           SurveyStart(q, <<>>, <<>>, o, ok)
    \/ \E o \in SurveyOutcomes : SurveyStep(o)
    \/ SurveyFinish
    \/ \E o \in AnalysisOutcomes, e \in BOOLEAN : ExecuteAiAnalysis(o, e)

SpecAiAnalysis == SurveyInit /\ [][AiAnalysisNext]_vars

\* Surveys without a web search around one press of the analysis button.
FirstPress == ai_run.runs = 0

ResurveyNext ==
    \/ \E u \in BOOLEAN, k \in BOOLEAN : SetupSidebar(u, k, DefaultPersonaCount)
    \/ \E q \in SurveyQuestions, o \in SummaryOutcomes, ok \in BOOLEAN :
           SurveyStart(q, <<>>, <<>>, o, ok)
    \/ \E o \in SurveyOutcomes : SurveyStep(o)
    \/ SurveyFinish
    \/ FirstPress /\ \E o \in AnalysisOutcomes, e \in BOOLEAN : ExecuteAiAnalysis(o, e)

SpecResurvey == SurveyInit /\ [][ResurveyNext]_vars

\* ----------------------------------------------------------------------
\* Properties of the allocator (checked under SpecAlloc)
\* ----------------------------------------------------------------------
NumEntities == Len(species_population)

\* C1: for every table of L >= 1 positive populations and every N >= L the
\* returned mapping has exactly L entries, one per entity, and its counts
\* sum to exactly N.
C1_ExactAllocation ==
    (alloc_pc = "done" /\ total_personas >= NumEntities) =>
        /\ Len(species_distribution) = NumEntities
        /\ Keys(species_distribution) = DOMAIN species_population
        /\ SumCounts(species_distribution) = total_personas

\* A return with N > L over three entities of different populations, the
\* first one clamped by the reservation term.
C1_Witness ==
    /\ alloc_pc = "done"
    /\ NumEntities >= 3
    /\ total_personas > NumEntities
    /\ species_population[1] # species_population[2]
    /\ IntOfProduct(total_personas, species_population[species_list[1]],
                    TotalPopulation(species_population), fp_low)
           > species_distribution[1][2]

\* C2: for 0 <= N < L the allocation never assigns more than N at any point,
\* runs to its return, and returns counts that sum to exactly N.
C2_UnderflowExact ==
    (alloc_pc # "idle" /\ total_personas < NumEntities) =>
        /\ SumCounts(species_distribution) <= total_personas
        /\ remaining_personas >= 0
        /\ alloc_pc # "done" => ENABLED AllocNext
        /\ alloc_pc = "done" => SumCounts(species_distribution) = total_personas

\* A return with 1 <= N < L.
C2_Witness ==
    /\ alloc_pc = "done"
    /\ total_personas >= 1
    /\ total_personas < NumEntities
    /\ SumCounts(species_distribution) = total_personas

\* C3: for N >= L, after every assignment of the loop the remaining budget is
\* at least the number of entities still to be assigned, every stored count
\* is >= 1, and on return every entity, the last one included, has a count >= 1.
C3_ReservationInvariant ==
    (alloc_pc # "idle" /\ total_personas >= NumEntities) =>
        /\ alloc_pc \in {"loop", "last"} =>
               remaining_personas >= NumEntities - (alloc_i - 1)
        /\ \A k \in 1..Len(species_distribution) : species_distribution[k][2] >= 1
        /\ alloc_pc = "done" =>
               \A e \in DOMAIN species_population :
                   /\ e \in Keys(species_distribution)
                   /\ CountOf(species_distribution, e) >= 1

\* The loop has assigned an entity whose proportional share is 0 (lifted to
\* 1 by the floor) and the budget left equals the entities left.
C3_Witness ==
    /\ alloc_pc = "loop"
    /\ alloc_i = 3
    /\ NumEntities = 3
    /\ total_personas >= NumEntities
    /\ remaining_personas = 1
    /\ IntOfProduct(total_personas, species_population[species_list[2]],
                    TotalPopulation(species_population), fp_low) = 0

\* The entity of a table that has population p.
EntityOfPop(tbl, p) == CHOOSE i \in DOMAIN tbl : tbl[i] = p
IsABC == species_population \in {TableABC, TableCAB}

\* C4: for {A: 100, B: 10, C: 1} and N = 20, A and B each get at least 1, A
\* gets strictly more than B, the total is exactly 20, and C is stored last
\* with exactly the budget left after A and B.
C4_ExampleABC ==
    (alloc_pc = "done" /\ IsABC /\ total_personas = 20) =>
        LET A == EntityOfPop(species_population, 100)
            B == EntityOfPop(species_population, 10)
            C == EntityOfPop(species_population, 1)
            d == species_distribution
        IN  /\ Keys(d) = {A, B, C}
            /\ CountOf(d, A) >= 1
            /\ CountOf(d, B) >= 1
            /\ CountOf(d, A) > CountOf(d, B)
            /\ SumCounts(d) = 20
            /\ d[Len(d)][1] = C
            /\ CountOf(d, C) = remaining_personas
            /\ CountOf(d, C) = 20 - CountOf(d, A) - CountOf(d, B)

\* The example has been computed from the table in the dictionary order C, A, B.
C4_Witness ==
    /\ alloc_pc = "done"
    /\ species_population = TableCAB
    /\ total_personas = 20
    /\ Len(species_distribution) = 3
    /\ species_distribution[1] = <<2, 18>>

\* ----------------------------------------------------------------------
\* Properties of the ledger (checked under SpecLedger)
\* ----------------------------------------------------------------------
InputsOf(log) == [k \in 1..Len(log) |-> log[k][1]]
OutputsOf(log) == [k \in 1..Len(log) |-> log[k][2]]

\* C9: after any sequence of k add_usage(i_j, o_j) calls on a fresh ledger the
\* input total is the sum of the i_j, the output total the sum of the o_j and
\* requests_count is k; add_usage(100, 50) twice gives 200, 100 and 2.
C9_TotalsAreSums ==
    \A p \in Instances :
        /\ cost_tracker[p].total_input_tokens = SumSeq(InputsOf(usage_log[p]))
        /\ cost_tracker[p].total_output_tokens = SumSeq(OutputsOf(usage_log[p]))
        /\ cost_tracker[p].requests_count = Len(usage_log[p])
        /\ usage_log[p] = <<<<100, 50>>, <<100, 50>>>> =>
               cost_tracker[p] = [total_input_tokens |-> 200,
                                  total_output_tokens |-> 100,
                                  requests_count |-> 2]

\* add_usage(100, 50) has been called twice on a fresh ledger.
C9_Witness ==
    /\ usage_log["live"] = <<<<100, 50>>, <<100, 50>>>>
    /\ cost_tracker["live"].total_input_tokens = 200
    /\ cost_tracker["live"].requests_count = 2

\* C10: the totals and the request counter change only in an add_usage call
\* and never decrease; a read (get_total_cost, get_cost_summary) leaves the
\* ledger unchanged and returns the cost of the current totals, so a second
\* read with no add_usage in between returns the same cost.
C10_Step ==
    \A p \in Instances :
        LET isRead == reads_since'[p] = reads_since[p] + 1
        IN  /\ cost_tracker'[p] # cost_tracker[p] =>
                   Len(usage_log'[p]) = Len(usage_log[p]) + 1
            /\ cost_tracker'[p].total_input_tokens >= cost_tracker[p].total_input_tokens
            /\ cost_tracker'[p].total_output_tokens >= cost_tracker[p].total_output_tokens
            /\ cost_tracker'[p].requests_count >= cost_tracker[p].requests_count
            /\ isRead =>
                   /\ cost_tracker' = cost_tracker
                   /\ ret_cost'[p] = cost_tracker'[p].total_input_tokens * gpt4o_mini_input_cost
                                   + cost_tracker'[p].total_output_tokens * gpt4o_mini_output_cost
            /\ (isRead /\ reads_since[p] >= 1) => ret_cost'[p] = ret_cost[p]

C10_ReadsFrameAndMonotone == [][C10_Step]_vars

\* Two reads, one of them a summary, after the last add_usage of a charged ledger.
C10_Witness ==
    /\ reads_since["live"] = 2
    /\ cost_tracker["live"].requests_count >= 2
    /\ Len(ret_summary["live"]) = 1
    /\ ret_summary["live"][1].total_tokens =
           cost_tracker["live"].total_input_tokens + cost_tracker["live"].total_output_tokens
    /\ ret_cost["live"] = get_total_cost(cost_tracker["live"])
    /\ ret_cost["live"] > 0

\* ----------------------------------------------------------------------
\* Properties of the providers (checked under SpecProvider)
\* ----------------------------------------------------------------------
LastResult == last_call.result[1]
LiveGenerateRaised ==
    /\ last_call.provider = "live"
    /\ last_call.op = "generate"
    /\ last_call.raised

\* The positions of a text that hold characters of an error message.
ErrorChars(text) == {i \in 1..Len(text) : text[i] > ErrBase /\ text[i] < ContentBase}

\* C7: when the completion call of the live provider raises, generate_response
\* returns a result with success = false and output_tokens = 0, input_tokens
\* is the token count of the prompt, the text holds at most 50 characters of
\* the error message (its first ones), and the ledger has been charged with
\* add_usage(input_tokens, 0).
C7_LiveFailureContract ==
    LiveGenerateRaised =>
        LET r == LastResult
            t == cost_tracker["live"]
            pre == last_call.pre
        IN  /\ Len(last_call.result) = 1
            /\ r.success = FALSE
            /\ r.output_tokens = 0
            /\ r.input_tokens = last_call.prompt_tokens
            /\ Cardinality(ErrorChars(r.text)) <= 50
            /\ \A i \in ErrorChars(r.text) :
                   \E k \in 1..Min(50, Len(last_call.error)) : r.text[i] = last_call.error[k]
            /\ t.total_input_tokens = pre.total_input_tokens + last_call.prompt_tokens
            /\ t.total_output_tokens = pre.total_output_tokens
            /\ t.requests_count = pre.requests_count + 1

\* A generate call has raised with a message of more than 50 characters on a
\* live provider that had been charged before.
C7_Witness ==
    /\ LiveGenerateRaised
    /\ Len(last_call.error) > 50
    /\ last_call.pre.requests_count >= 1
    /\ last_call.prompt_tokens > 0
    /\ Cardinality(ErrorChars(LastResult.text)) >= 47

\* C8: every provider call, on either provider and whatever its outcome,
\* updates that provider's ledger exactly once: after k calls on an instance
\* its requests_count is k.
C8_LedgerOncePerCall ==
    \A p \in Instances : cost_tracker[p].requests_count = ncalls[p]

\* ----------------------------------------------------------------------
\* Properties of the survey (checked under SpecSurvey)
\* ----------------------------------------------------------------------
\* The first n records are the records of the first n personas, in order.
RecordsMatch(records, n) ==
    /\ Len(records) = n
    /\ \A k \in 1..n :
           /\ records[k].persona_id = survey.personas[k].id
           /\ records[k].persona = survey.personas[k]
           /\ records[k].question = survey.question

\* C5: when a survey over p1..pN completes, the stored response list has
\* exactly N records and the record at position i carries the id of p_i and
\* the survey's question, whatever the outcomes of the calls; the calls are
\* made one at a time in list order (after i-1 calls the list holds the
\* records of p1..p(i-1), the last being the result of the latest call).
C5_RecordsInPersonaOrder ==
    /\ survey.pc = "done" =>
           /\ Len(session_state.survey_responses) = Len(survey.personas)
           /\ RecordsMatch(session_state.survey_responses, Len(survey.personas))
    /\ survey.pc = "loop" =>
           /\ survey.i <= Len(survey.personas) + 1
           /\ RecordsMatch(survey.responses, survey.i - 1)
           /\ survey.i > 1 =>
                  /\ last_call.provider = survey.provider
                  /\ last_call.op = "generate"
                  /\ survey.responses[survey.i - 1].response = LastResult.text

\* A survey over two personas has completed with one failed and one
\* successful call.
C5_Witness ==
    /\ survey.pc = "done"
    /\ Len(session_state.survey_responses) = 2
    /\ session_state.survey_responses[1].persona_id = 1
    /\ session_state.survey_responses[2].persona_id = 2
    /\ session_state.survey_responses[1].success # session_state.survey_responses[2].success

\* C6: a call that fails for persona i yields a record with success = false
\* at position i and the loop goes on to persona i+1 (every persona gets its
\* record); the reported success count is the number of records with
\* success = true, and it is below N exactly when some call failed.
C6_FailureIsolated ==
    survey.pc \in {"loop", "done"} =>
        /\ survey.failed \subseteq 1..Len(survey.responses)
        /\ \A k \in 1..Len(survey.responses) :
               survey.responses[k].success = (k \notin survey.failed)
        /\ \A k \in survey.failed : survey.i > k
        /\ survey.pc = "done" =>
               /\ Len(session_state.survey_responses) = Len(survey.personas)
               /\ survey.successful_count =
                      Cardinality({k \in 1..Len(session_state.survey_responses) :
                                      session_state.survey_responses[k].success})
               /\ (survey.successful_count < Len(survey.personas)) = (survey.failed # {})

\* The call for the first of two personas failed, the survey went on and
\* completed with one success reported.
C6_Witness ==
    /\ survey.pc = "done"
    /\ Len(survey.personas) = 2
    /\ survey.failed = {1}
    /\ session_state.survey_responses[1].success = FALSE
    /\ session_state.survey_responses[2].success = TRUE
    /\ survey.successful_count = 1

\* ----------------------------------------------------------------------
\* Properties of single calls (checked under SpecRespond)
\* ----------------------------------------------------------------------
\* The text a generate call started from: the stripped message content of
\* the live provider, the response chosen by the simulated provider.
SourceText ==
    IF last_call.provider = "live" THEN Strip(last_call.content) ELSE last_call.content

\* C11: the response text returned by generate_response, by either provider,
\* on success and on failure, has at most 100 characters: a source text of
\* more than 100 characters is returned as its first 97 characters followed
\* by '...', a source text of at most 100 characters is returned unchanged.
C11_ResponseAtMost100 ==
    last_call.op = "generate" =>
        /\ Len(LastResult.text) <= 100
        /\ ~last_call.raised =>
               /\ Len(SourceText) > 100 =>
                      /\ LastResult.text = SubSeq(SourceText, 1, 97) \o <<DOT, DOT, DOT>>
                      /\ Len(LastResult.text) = 100
               /\ Len(SourceText) <= 100 => LastResult.text = SourceText

\* A live generate call has returned a content of more than 100 characters, cut.
C11_Witness ==
    /\ last_call.provider = "live"
    /\ last_call.op = "generate"
    /\ ~last_call.raised
    /\ Len(Strip(last_call.content)) = 101
    /\ Len(LastResult.text) = 100
    /\ LastResult.text[100] = DOT
    /\ LastResult.text[97] = last_call.content[97]

\* C12: the summary text returned by summarize_search_results has at most
\* 300 characters, for either provider, every list of search results and
\* every question, on success and on failure.
C12_SummaryAtMost300 ==
    last_call.op = "summarize" => Len(LastResult.text) <= 300

\* ----------------------------------------------------------------------
\* Properties of the persona generation (checked under SpecPersona)
\* ----------------------------------------------------------------------
\* C13: in both modes a generation for the requested count N stores a list of
\* exactly N personas whose i-th persona (from 1) has id i; in population mode
\* across the groups of the species and for each menu size 10, 25, 50, 100.
C13_Step ==
    session_state'.personas # session_state.personas =>
        LET N == IF variant = "app" THEN session_state.persona_count ELSE total_personas
            ps == session_state'.personas
        IN  /\ N \in {10, 25, 50, 100}
            /\ Len(ps) = N
            /\ \A i \in 1..Len(ps) : ps[i].id = i

C13_SequentialIds == [][C13_Step]_vars

\* 100 personas have been generated over the species of the database, the
\* 53rd the last of the first species and the 54th the first of the second.
C13_Witness ==
    /\ variant = "run"
    /\ species_population = TableDB
    /\ Len(session_state.personas) = 100
    /\ session_state.personas[53].species_name = "Herring"
    /\ session_state.personas[54].species_name = "Mackerel"
    /\ session_state.personas[54].id = 54
    /\ session_state.personas[100].id = 100

\* The generation bands as the claim states them.
BandOf(age) ==
    CASE age <= 24 -> "Z"
      [] age >= 25 /\ age <= 39 -> "Millennial"
      [] age >= 40 /\ age <= 54 -> "X"
      [] age >= 55 /\ age <= 64 -> "Bubble"
      [] age >= 65 -> "Senior"

\* C20: get_generation_label is a total function of the age alone, with the
\* bands age <= 24, 25-39, 40-54, 55-64 and >= 65 and five different labels,
\* and every persona generated in demographic mode has the label of its age,
\* whatever its other attributes.
C20_GenerationFromAge ==
    /\ \A age \in -1..120 : get_generation_label(age) = BandOf(age)
    /\ Cardinality({get_generation_label(age) : age \in 0..120}) = 5
    /\ variant = "app" =>
           \A i \in 1..Len(session_state.personas) :
               LET p == session_state.personas[i]
               IN  /\ p.generation = BandOf(p.age)
                   /\ \A j \in 1..Len(session_state.personas) :
                          session_state.personas[j].age = p.age =>
                              session_state.personas[j].generation = p.generation

\* A generated list holds two personas of age 24 that differ in political
\* leaning, and a persona of age 25 with another label.
C20_Witness ==
    /\ variant = "app"
    /\ \E i, j, k \in 1..Len(session_state.personas) :
           LET ps == session_state.personas
           IN  /\ ps[i].age = 24
               /\ ps[j].age = 24
               /\ ps[i].political_leaning # ps[j].political_leaning
               /\ ps[i].generation = ps[j].generation
               /\ ps[k].age = 25
               /\ ps[k].generation # ps[i].generation

\* The last call was a generate call of the simulated provider of app.py.
AppSimGenerated ==
    /\ variant = "app"
    /\ last_call.provider = "sim"
    /\ last_call.op = "generate"

\* Some word of the class occurs in the question.
Occurs(class, question) ==
    \E w \in class : \E i \in 1..Len(question) :
        /\ i + Len(w) - 1 <= Len(question)
        /\ \A k \in 1..Len(w) : question[i + k - 1] = w[k]

\* C14: the simulated response of a persona whose political leaning is the
\* disengaged value is one of the no-opinion responses whatever the question;
\* otherwise it is an entry of the table of the persona's generation (of the
\* X generation when the generation is unknown) in the bucket of the
\* question: positive if a positive keyword occurs, else negative if a
\* negative keyword occurs, else neutral.
C14_SimulatedChoice ==
    AppSimGenerated =>
        LET persona == last_call.input.persona
            question == last_call.input.question
            disengaged == "political_leaning" \in DOMAIN persona
                              /\ persona.political_leaning = Disengaged
            generation == IF "generation" \in DOMAIN persona
                               /\ persona.generation \in GenerationLabels
                          THEN persona.generation ELSE GenX
            bucket == IF Occurs(AppPositiveWords, question) THEN "positive"
                      ELSE IF Occurs(AppNegativeWords, question) THEN "negative"
                      ELSE "neutral"
        IN  IF disengaged
            THEN LastResult.text \in Range(app_no_opinion_responses)
            ELSE LastResult.text \in Range(app_response_patterns[generation][bucket])

\* A persona of an unknown generation has answered a question that holds a
\* negative keyword in front of a positive one, from the positive bucket of
\* the X generation.
C14_Witness ==
    /\ AppSimGenerated
    /\ "generation" \in DOMAIN last_call.input.persona
    /\ last_call.input.persona.generation \notin GenerationLabels
    /\ last_call.input.persona.political_leaning = Liberal
    /\ Occurs(AppNegativeWords, last_call.input.question)
    /\ Occurs(AppPositiveWords, last_call.input.question)
    /\ LastResult.text \in Range(app_response_patterns[GenX]["positive"])

\* The last call was a generate call of the simulated provider.
SimGenerated ==
    /\ last_call.provider = "sim"
    /\ last_call.op = "generate"

\* C15 as stated: every result of the simulated provider has success = true
\* and cost 0, and the token counts of a generate result depend only on the
\* lengths of the question and of the chosen response, so that any question
\* of the same length gives the same counts with the same response.
C15_TokensFromLengths ==
    last_call.provider = "sim" =>
        /\ LastResult.success = TRUE
        /\ LastResult.cost_usd = 0
        /\ last_call.op = "generate" =>
               \A q2 \in RichQuestions(variant) :
                   Len(q2) = Len(last_call.input.question) =>
                       LET r2 == sim_generate(variant, q2, last_call.content).result
                       IN  /\ r2.input_tokens = LastResult.input_tokens
                           /\ r2.output_tokens = LastResult.output_tokens

\* C15 amended: every result of the simulated provider has success = true and
\* cost 0; the token counts of a generate result are len(question) // 3 + 100
\* and len(response) // 3 in app.py, and the number of words of the question
\* plus 100 and twice the number of words of the returned response in run.py.
C15_TokensFromLengthsOrWords ==
    last_call.provider = "sim" =>
        /\ LastResult.success = TRUE
        /\ LastResult.cost_usd = 0
        /\ (last_call.op = "generate" /\ variant = "app") =>
               /\ LastResult.input_tokens = Len(last_call.input.question) \div 3 + 100
               /\ LastResult.output_tokens = Len(last_call.content) \div 3
        /\ (last_call.op = "generate" /\ variant = "run") =>
               /\ LastResult.input_tokens =
                      Cardinality({i \in 1..Len(last_call.input.question) :
                          /\ last_call.input.question[i] # SP
                          /\ (i = 1 \/ last_call.input.question[i - 1] = SP)}) + 100
               /\ LastResult.output_tokens =
                      2 * Cardinality({i \in 1..Len(LastResult.text) :
                          /\ LastResult.text[i] # SP
                          /\ (i = 1 \/ LastResult.text[i - 1] = SP)})

\* The simulated provider of run.py has answered a question of six
\* characters in two words, counted as 102 input tokens.
C15_Witness ==
    /\ SimGenerated
    /\ variant = "run"
    /\ Len(last_call.input.question) = 6
    /\ LastResult.input_tokens = 102
    /\ LastResult.cost_usd = 0
    /\ LastResult.output_tokens > 0

\* ----------------------------------------------------------------------
\* Properties of the cost of a live call (checked under SpecProvider)
\* ----------------------------------------------------------------------
\* C16: the cost returned by a live call is (input_tokens / 1000) * 0.00015
\* + (output_tokens / 1000) * 0.0006, that is 15 and 60 units of 1e-8 USD per
\* token, the output rate being the higher one; a failed call returns
\* output_tokens = 0 and so the input part only.
C16_LiveCost ==
    last_call.provider = "live" =>
        /\ LastResult.cost_usd = LastResult.input_tokens * 15 + LastResult.output_tokens * 60
        /\ gpt4o_mini_output_cost > gpt4o_mini_input_cost
        /\ LastResult.input_tokens = last_call.prompt_tokens
        /\ last_call.raised =>
               /\ LastResult.success = FALSE
               /\ LastResult.output_tokens = 0
               /\ LastResult.cost_usd = LastResult.input_tokens * 15

\* A live call has succeeded with input and output tokens, after a failed one
\* was charged to the ledger.
C16_Witness ==
    /\ last_call.provider = "live"
    /\ ~last_call.raised
    /\ LastResult.input_tokens > 0
    /\ LastResult.output_tokens > 0
    /\ LastResult.cost_usd > LastResult.input_tokens * 15
    /\ last_call.pre.requests_count = 1
    /\ last_call.pre.total_output_tokens = 0

\* ----------------------------------------------------------------------
\* Properties of the analyzer (checked under SpecAnalyzer)
\* ----------------------------------------------------------------------
\* The occurrences of the words of a lexicon in a text, by their positions.
Occurrences(words, text) ==
    Cardinality({<<w, i>> \in words \X (1..Len(text)) :
                    /\ i + Len(w) - 1 <= Len(text)
                    /\ \A k \in 1..Len(w) : text[i + k - 1] = w[k]})

\* The text analyze_sentiment scores: run.py lower-cases the response.
Scored(response) == IF variant = "run" THEN Lower(response) ELSE response
NetPositive(response) ==
    Occurrences(positive_words(variant), Scored(response))
        > Occurrences(negative_words(variant), Scored(response))
NetNegative(response) ==
    Occurrences(negative_words(variant), Scored(response))
        > Occurrences(positive_words(variant), Scored(response))

\* The fraction <<num, den>> is 33.3 when rounded to one decimal.
Is33_3(f) == (f[1] * 100) \div f[2] >= 3325 /\ (f[1] * 100) \div f[2] < 3335

\* C17: for a non-empty list analyze_sentiment counts every response in
\* exactly one class - positive iff it holds more positive than negative
\* lexicon occurrences, negative iff the reverse, neutral otherwise - and
\* returns each class count divided by the number of responses times 100;
\* one net-positive, one net-negative and one neutral response give 33.3%
\* each.
C17_SentimentShares ==
    (analyzer.sentiment # <<>> /\ analyzer.sentiment_of # <<>>) =>
        LET rs == analyzer.sentiment_of
            r == analyzer.sentiment[1]
            n == Len(rs)
            P == {k \in 1..n : NetPositive(rs[k])}
            N == {k \in 1..n : NetNegative(rs[k])}
            U == {k \in 1..n : ~NetPositive(rs[k]) /\ ~NetNegative(rs[k])}
        IN  /\ DOMAIN r = {"positive", "negative", "neutral"}
            /\ r.positive = <<Cardinality(P) * 100, n>>
            /\ r.negative = <<Cardinality(N) * 100, n>>
            /\ r.neutral = <<Cardinality(U) * 100, n>>
            /\ r.positive[1] + r.negative[1] + r.neutral[1] = 100 * n
            /\ (n = 3 /\ Cardinality(P) = 1 /\ Cardinality(N) = 1) =>
                   /\ Is33_3(r.positive)
                   /\ Is33_3(r.negative)
                   /\ Is33_3(r.neutral)

\* Three responses have been analysed: one with two positive words and a
\* negative one, one with a tie, one with a negative word.
C17_Witness ==
    /\ Len(analyzer.sentiment_of) = 3
    /\ analyzer.sentiment # <<>>
    /\ NetPositive(analyzer.sentiment_of[1])
    /\ Occurrences(negative_words(variant), Scored(analyzer.sentiment_of[1])) = 1
    /\ Occurrences(positive_words(variant), Scored(analyzer.sentiment_of[2])) = 1
    /\ Occurrences(negative_words(variant), Scored(analyzer.sentiment_of[2])) = 1
    /\ NetNegative(analyzer.sentiment_of[3])
    /\ analyzer.sentiment[1].neutral = <<100, 3>>

\* The tokens of the concatenated responses, the eligible ones, and the
\* position at which a word is first met.
TokensOf(responses) ==
    FindAll(variant,
            IF variant = "run" THEN Lower(JoinSpace(responses)) ELSE JoinSpace(responses), 1)
EligibleTokens(toks) ==
    {t \in Range(toks) : t \notin stop_words(variant) /\ Len(t) > 1}
TimesMet(toks, t) == Cardinality({i \in 1..Len(toks) : toks[i] = t})
FirstMet(toks, t) ==
    CHOOSE i \in 1..Len(toks) : toks[i] = t /\ \A j \in 1..(i - 1) : toks[j] # t

\* C18: extract_keywords counts every token of the concatenated responses
\* that is not a stop word and is longer than one character, and returns at
\* most 15 different tokens with their exact counts, by non-increasing count
\* and, for equal counts, in the order in which they were first met; no
\* eligible token left out has a higher count than a returned one.
C18_TopKeywords ==
    analyzer.keywords # <<>> =>
        LET toks == TokensOf(analyzer.keywords_of)
            eligible == EligibleTokens(toks)
            ks == analyzer.keywords[1]
            returned == {ks[k].word : k \in 1..Len(ks)}
        IN  /\ Len(ks) <= 15
            /\ Len(ks) = Min(15, Cardinality(eligible))
            /\ Cardinality(returned) = Len(ks)
            /\ returned \subseteq eligible
            /\ \A k \in 1..Len(ks) : ks[k].count = TimesMet(toks, ks[k].word)
            /\ \A k \in 1..(Len(ks) - 1) :
                   \/ ks[k].count > ks[k + 1].count
                   \/ /\ ks[k].count = ks[k + 1].count
                      /\ FirstMet(toks, ks[k].word) < FirstMet(toks, ks[k + 1].word)
            /\ \A t \in eligible \ returned :
                   \A k \in 1..Len(ks) : TimesMet(toks, t) <= ks[k].count

\* Seventeen different words have been counted, the last and the third one
\* twice: the last one is returned in front of the third, and two words met
\* once are left out.
C18_Witness ==
    /\ analyzer.keywords # <<>>
    /\ Cardinality(EligibleTokens(TokensOf(analyzer.keywords_of))) = 17
    /\ Len(analyzer.keywords[1]) = 15
    /\ analyzer.keywords[1][1] = [word |-> Word(variant, 3), count |-> 2]
    /\ analyzer.keywords[1][2] = [word |-> Word(variant, 17), count |-> 2]
    /\ analyzer.keywords[1][15].count = 1

\* C19: a press of the analysis button, however it ends, leaves the stored
\* personas and the stored survey responses as they were; an analysis that
\* returned a failure changes the session only in the stored analysis result,
\* whose success is false, and one that raised changes nothing in it.
C19_Step ==
    ai_run'.runs = ai_run.runs + 1 =>
        /\ session_state'.personas = session_state.personas
        /\ session_state'.survey_responses = session_state.survey_responses
        /\ survey' = survey
        /\ \A f \in DOMAIN session_state \ {"ai_analysis"} :
               session_state'[f] = session_state[f]
        /\ (ai_run'.outcome = "returned" /\ last_call'.raised) =>
               /\ session_state'.ai_analysis # <<>>
               /\ ~session_state'.ai_analysis[1].success
        /\ ai_run'.outcome # "returned" => session_state' = session_state
C19_AnalysisKeepsSurveyData == [][C19_Step]_vars

\* Responses of two personas are stored, one analysis raised and the last one
\* returned a failure, which is the stored analysis result.
C19_Witness ==
    /\ Len(session_state.personas) = 2
    /\ Len(session_state.survey_responses) = 2
    /\ "raised" \in ai_run.seen
    /\ ai_run.outcome = "returned"
    /\ last_call.op = "analyze" /\ last_call.raised
    /\ session_state.ai_analysis # <<>>
    /\ ~session_state.ai_analysis[1].success

\* The seed of the run of the generator that drew the ages of the list, and
\* what the weighted occupation draw of its k-th call returned.
SeedOf(personas) ==
    CHOOSE seed \in Seeds : \A k \in 1..Len(personas) : personas[k].age = Pick(Ages, seed + k)
OccupationDrawn(seed, k) == Pick(Occupations, seed + k \div 3)

\* C21: a persona generated in demographic mode with age <= 20 has the
\* student occupation whatever the weighted draw returned, and one with
\* age > 20 has the occupation that the weighted draw returned.
C21_StudentUpTo20 ==
    variant = "app" =>
        LET seed == SeedOf(session_state.personas)
        IN  \A k \in 1..Len(session_state.personas) :
                LET p == session_state.personas[k]
                IN  /\ p.age <= 20 => p.occupation = Student
                    /\ p.age > 20 => p.occupation = OccupationDrawn(seed, k)

\* A generated list holds a persona of age 20 who is a student although
\* another occupation was drawn, one of age 21 with that other occupation and
\* one over 20 for whom the student occupation was drawn.
C21_Witness ==
    /\ variant = "app"
    /\ \E i, j, k \in 1..Len(session_state.personas) :
           LET ps == session_state.personas
           IN  /\ ps[i].age = 20 /\ ps[i].occupation = Student
               /\ OccupationDrawn(SeedOf(ps), i) # Student
               /\ ps[j].age = 21 /\ ps[j].occupation # Student
               /\ ps[k].age > 20 /\ ps[k].occupation = Student

\* An iteration of the allocation loop that stores a count: the entity at
\* position alloc_i of the descending order is the current one.
LoopAssigns ==
    /\ alloc_pc = "loop"
    /\ alloc_i' = alloc_i + 1
    /\ Len(species_distribution') = Len(species_distribution) + 1
StoredCount == species_distribution'[Len(species_distribution')][2]
ExactFloor == (total_personas * species_population[species_list[alloc_i]])
                  \div TotalPopulation(species_population)
\* int() of the double product: one below the exact quotient where the
\* product fell just below it.
FloatFloor ==
    IF species_population[species_list[alloc_i]] \in fp_low THEN ExactFloor - 1 ELSE ExactFloor

\* C22 as stated: the count of every entity but the last is
\* max(1, min(floor(N * population / total), remaining - left)) with left the
\* number of entities not yet processed, the current one included, and
\* remaining is reduced by the count.
C22_StepCountingCurrent ==
    LoopAssigns =>
        /\ StoredCount = Max(1, Min(ExactFloor,
                                    remaining_personas - (Len(species_list) - alloc_i + 1)))
        /\ remaining_personas' = remaining_personas - StoredCount
C22_CountReservesCurrent == [][C22_StepCountingCurrent]_vars

\* C22 amended: the reservation counts the entities after the current one,
\* and the floor is that of the double product N * (population / total).
C22_StepCountingLater ==
    LoopAssigns =>
        /\ species_distribution'[Len(species_distribution')][1] = species_list[alloc_i]
        /\ StoredCount = Max(1, Min(FloatFloor,
                                    remaining_personas - (Len(species_list) - alloc_i)))
        /\ remaining_personas' = remaining_personas - StoredCount
C22_CountReservesLater == [][C22_StepCountingLater]_vars

\* The loop has stored a first count of 2 or more that is the budget minus
\* the entities after the first one and lies below the proportional share:
\* reserving for the current entity too would have given one less.
C22_Witness ==
    /\ alloc_pc = "loop"
    /\ alloc_i = 2
    /\ Len(species_distribution) = 1
    /\ NumEntities = 3
    /\ species_distribution[1][2] >= 2
    /\ species_distribution[1][2] = total_personas - (NumEntities - 1)
    /\ species_distribution[1][2]
           < (total_personas * species_population[species_list[1]])
                 \div TotalPopulation(species_population)
    /\ remaining_personas = NumEntities - 1

\* Entity e comes before entity f in descending order of population, equal
\* populations in the order of the table.
Before(e, f) ==
    \/ species_population[e] > species_population[f]
    \/ species_population[e] = species_population[f] /\ e < f

\* C23: for 1 <= N < L the returned mapping holds exactly the N entities of
\* largest population, each with count 1, and no other entity; for any N no
\* count below 1 is ever stored.
C23_UnderflowKeepsLargest ==
    /\ \A k \in 1..Len(species_distribution) : species_distribution[k][2] >= 1
    /\ (alloc_pc = "done" /\ total_personas >= 1 /\ total_personas < NumEntities) =>
           /\ Len(species_distribution) = total_personas
           /\ Cardinality(Keys(species_distribution)) = total_personas
           /\ \A k \in 1..Len(species_distribution) : species_distribution[k][2] = 1
           /\ \A e \in Keys(species_distribution) :
                  \A f \in DOMAIN species_population \ Keys(species_distribution) :
                      Before(e, f)

\* A return with N = 2 over three entities, the two smaller ones of equal
\* population: the one that comes first in the table is kept.
C23_Witness ==
    /\ alloc_pc = "done"
    /\ NumEntities = 3
    /\ total_personas = 2
    /\ Len(species_distribution) = 2
    /\ \E e \in Keys(species_distribution) :
           \E f \in DOMAIN species_population \ Keys(species_distribution) :
               species_population[e] = species_population[f]

\* The entity of smallest population, the last of equal ones in the table:
\* the one that takes the budget left.
IsSink(e) == \A f \in DOMAIN species_population \ {e} : Before(f, e)

\* C24: among the entities other than the last one, a count stored later is
\* never larger than one stored earlier, and an entity never has more than
\* an entity of larger population; the last entity is exempt.
C24_CountsNonIncreasing ==
    LET dist == species_distribution
        loop == {k \in 1..Len(dist) : ~IsSink(dist[k][1])}
    IN  /\ \A j, k \in loop : j < k => dist[j][2] >= dist[k][2]
        /\ \A j, k \in loop :
               species_population[dist[j][1]] > species_population[dist[k][1]] =>
                   dist[j][2] >= dist[k][2]

\* A return over three entities where the first has more than the second
\* and the last, of smallest population, more than the second.
C24_Witness ==
    /\ alloc_pc = "done"
    /\ NumEntities = 3
    /\ Len(species_distribution) = 3
    /\ IsSink(species_distribution[3][1])
    /\ species_population[species_distribution[2][1]]
           > species_population[species_distribution[3][1]]
    /\ species_distribution[1][2] > species_distribution[2][2]
    /\ species_distribution[3][2] > species_distribution[2][2]

\* C25: after any sequence of generate, summarize and analyze calls on the
\* live provider, successful or failed, the cost of its ledger is the sum of
\* the costs that the calls returned, and its input and output totals are the
\* sums of the input_tokens and output_tokens returned.
C25_LedgerMatchesReturned ==
    /\ get_total_cost(cost_tracker["live"]) = returned_total.cost_usd
    /\ cost_tracker["live"].total_input_tokens = returned_total.input_tokens
    /\ cost_tracker["live"].total_output_tokens = returned_total.output_tokens
    /\ cost_tracker["live"].requests_count = ncalls["live"]

\* Two live calls have returned, a failed one and then a successful one of
\* another operation.
C25_Witness ==
    /\ ncalls["live"] = 2
    /\ last_call.provider = "live"
    /\ ~last_call.raised
    /\ last_call.pre.requests_count = 1
    /\ last_call.pre.total_output_tokens = 0
    /\ last_call.op = "analyze"
    /\ returned_total.output_tokens > 0
    /\ returned_total.cost_usd
           > LastResult.input_tokens * 15 + LastResult.output_tokens * 60

\* C26: a survey that runs on the live provider (live mode selected, an API
\* key available) and has a search summary got that summary from the live
\* provider, in the first survey of the session as in the later ones; the
\* simulated provider summarises only for a survey in simulation mode.
C26_SummaryByModeProvider ==
    (survey.pc = "loop" /\ survey.i = 1 /\ survey.search_summary # <<>>) =>
        /\ last_call.op = "summarize"
        /\ last_call.result = survey.search_summary
        /\ survey.provider = "live" => last_call.provider = "live"
        /\ last_call.provider = "sim" => survey.provider = "sim"

\* C27: an analysis result held in the session was computed from the survey
\* responses that the session holds now; once a survey has replaced the
\* stored responses, a result computed from the earlier ones is gone.
C27_AnalysisOfStoredResponses ==
    session_state.ai_analysis # <<>> =>
        ai_run.analysed = session_state.survey_responses

\* A search query was given, the search returned a result and the summary
\* call returned success.
ContextSupplied ==
    /\ survey.search_query # <<>>
    /\ survey.search_results # <<>>
    /\ survey.search_summary # <<>>
    /\ survey.search_summary[1].success

\* C28: all records of a survey carry the same context_used flag, which is
\* true exactly when a search query was given, the search returned at least
\* one result and the summary call returned success; every call of the
\* survey was made with the same context string, empty exactly when the flag
\* is false.
C28_OneContextPerSurvey ==
    survey.pc \in {"loop", "done"} =>
        /\ \A k \in 1..Len(survey.responses) :
               survey.responses[k].context_used = ContextSupplied
        /\ (survey.context_info # <<>>) = ContextSupplied
        /\ ContextSupplied =>
               survey.context_info = ContextOf(survey.search_summary[1].text)
        /\ (survey.pc = "loop" /\ survey.i > 1) =>
               last_call.input.context_info = survey.context_info
        /\ survey.pc = "done" =>
               \A k \in 1..Len(session_state.survey_responses) :
                   session_state.survey_responses[k].context_used = ContextSupplied

\* A survey with a summarised search has stored two records, one of a failed
\* and one of a successful call, both flagged as having used the context.
C28_Witness ==
    /\ survey.pc = "done"
    /\ ContextSupplied
    /\ Len(session_state.survey_responses) = 2
    /\ session_state.survey_responses[1].success # session_state.survey_responses[2].success
    /\ session_state.survey_responses[1].context_used
    /\ session_state.survey_responses[2].context_used

\* The records of a list whose success flag is true, in the order of the list.
Succeeded(r) == r.success
SucceededRecords(records) == SelectSeq(records, Succeeded)

\* C29: analyze_responses is called only by a press of the analysis button,
\* so only once a survey has stored responses; it is given the response
\* texts of the stored records whose success flag is true, in record order,
\* and is not called at all when no record succeeded.
C29_Step ==
    LET records == session_state.survey_responses
        pressed == ai_run'.runs = ai_run.runs + 1
        called == pressed /\ ai_run'.outcome = "returned"
    IN  /\ (last_call'.op = "analyze" /\ last_call' # last_call) => called
        /\ called =>
               /\ records # <<>>
               /\ last_call'.op = "analyze"
               /\ SucceededRecords(records) # <<>>
               /\ Len(last_call'.input.responses) = Len(SucceededRecords(records))
               /\ \A k \in 1..Len(SucceededRecords(records)) :
                      last_call'.input.responses[k] = SucceededRecords(records)[k].response
        /\ (pressed /\ SucceededRecords(records) = <<>>) =>
               /\ ai_run'.outcome = "no_responses"
               /\ last_call' = last_call
               /\ ncalls' = ncalls
               /\ UNCHANGED ledger_vars
C29_AnalyzeSuccessfulOnly == [][C29_Step]_vars

\* The analysis has been called on the stored records of two personas, the
\* first failed and the second successful, with the text of the second only.
C29_Witness ==
    /\ ai_run.outcome = "returned"
    /\ last_call.op = "analyze"
    /\ Len(session_state.survey_responses) = 2
    /\ ~session_state.survey_responses[1].success
    /\ session_state.survey_responses[2].success
    /\ last_call.input.responses = <<session_state.survey_responses[2].response>>

\* C30: for every text and every max_length >= 3, _safe_trim returns at most
\* max_length characters, and returns a text of at most max_length characters
\* unchanged.
C30_TrimWithinMax ==
    (safe_trim_call.result # <<>> /\ safe_trim_call.max_length >= 3) =>
        /\ Len(safe_trim_call.result[1]) <= safe_trim_call.max_length
        /\ Len(safe_trim_call.text) <= safe_trim_call.max_length =>
               safe_trim_call.result[1] = safe_trim_call.text

====
